---------------------------- MODULE Spec2Model ----------------------------
(***************************************************************************)
(* A model of the watchdog acquisition engine:                             *)
(*   - config.DoWithBackoff and config.BackoffStore (package config),      *)
(*   - gtfs.downloadGTFSBundles / refreshGTFSBundles / downloadGTFSBundle  *)
(*     / storeGTFSBundle (package gtfs).                                   *)
(*   - gtfs.fetchAndStoreGTFSRTFeed and                                    *)
(*     gtfs.getEarliestAndLatestServiceDates (package gtfs),               *)
(*   - metrics.CheckScheduledTripRoute and                                 *)
(*     metrics.CheckAgenciesWithCoverageMatch (package metrics).           *)
(* Durations are counted in milliseconds (time.Duration counts             *)
(* nanoseconds; every duration of the program is a whole number of         *)
(* milliseconds before jitter is added).                                   *)
(***************************************************************************)
EXTENDS Integers, Sequences, FiniteSets, TLC

(***************************************************************************)
(* Bounds of the model.                                                    *)
(***************************************************************************)
\* with two servers in the list, maxRetries ranges over 0 .. MaxRetriesBound
MaxRetriesBound == 1
\* with one server in the list, maxRetries ranges over 0 .. MaxRetriesOne
MaxRetriesOne == 3
\* for the wait sequence of DoWithBackoff, maxRetries ranges over
\* 0 .. MaxRetriesExecutor: the delay reaches MAX_BACKOFF within the limit
MaxRetriesExecutor == 8

\* UpdateBackoff is called at most MaxUpdates times in a row for one id
MaxUpdates == 9
\* the clock of the BackoffStore callers runs from 0 to MaxNow
MaxNow == 1
\* goroutines that use the BackoffStore concurrently make at most
\* MaxConcurrentUpdates calls of UpdateBackoff per server in a streak
MaxConcurrentUpdates == 3
\* the length of a streak ended by ResetBackoff is recorded up to StreakCap
StreakCap == 3
\* rand.Float64() ranges over k / JitterSteps, k in 0 .. JitterSteps - 1
JitterSteps == 2

\* the ids of the servers (models.ObaServer.ID); a server list is a sequence
\* of distinct ids
Servers == {1, 2}

\* the counters of DoWithBackoff are unbounded when maxRetries = 0; they are
\* only compared with maxRetries, so the model lets them saturate above it
CounterCap == (IF MaxRetriesBound >= MaxRetriesOne THEN MaxRetriesBound ELSE MaxRetriesOne) + 2

(***************************************************************************)
(* Program constants (package config).                                     *)
(***************************************************************************)
Second == 1000
Minute == 60 * Second
BASE_BACKOFF == 1 * Second
MAX_BACKOFF == 2 * Minute
BACKOFF_FACTOR == 2
\* JITTER_FACTOR = 0.5, as the divisor of 1 / 2
JITTER_DIVISOR == 2

StatusOK == 200
StatusInternalServerError == 500

Min(a, b) == IF a <= b THEN a ELSE b
Max(a, b) == IF a >= b THEN a ELSE b

\* Variant of calculateNewBackoffDelay: the cap at MAX_BACKOFF is missing
calculateNewBackoffDelayUncapped(backoffDelay) ==
    backoffDelay * BACKOFF_FACTOR

(***************************************************************************)
(* calculateNewBackoffDelay: multiply by BACKOFF_FACTOR, cap at            *)
(* MAX_BACKOFF.                                                            *)
(***************************************************************************)
calculateNewBackoffDelay(backoffDelay) ==
    LET doubled == backoffDelay * BACKOFF_FACTOR
    IN  IF doubled >= MAX_BACKOFF THEN MAX_BACKOFF ELSE doubled

(***************************************************************************)
(* Times: an instant (milliseconds) and a location. time.Now() is in the   *)
(* local zone, t.UTC() is the same instant in UTC, time.Time{} is the zero *)
(* time (an instant before every clock value, in UTC).                     *)
(***************************************************************************)
Time(ms, loc) == [ms |-> ms, loc |-> loc]
ZeroTime == Time(0 - 1, "UTC")
UTC(t) == Time(t.ms, "UTC")
Add(t, d) == Time(t.ms + d, t.loc)

\* the values rand.Float64() can take, as numerators over JitterSteps
RandomValues == 0 .. (JitterSteps - 1)

\* Variant of calculateNextRetryAt: the jittered delay is not capped
calculateNextRetryAtUncapped(backoff, r, clock) ==
    LET jitter == (r * backoff) \div (JitterSteps * JITTER_DIVISOR)
    IN  UTC(Add(Time(clock, "Local"), backoff + jitter))

\* calculateNextRetryAt, with r / JitterSteps the value of rand.Float64()
\* and clock the value of time.Now(): the jitter is truncated to a whole
\* duration, the sum is capped at MAX_BACKOFF
calculateNextRetryAt(backoff, r, clock) ==
    LET jitter == (r * backoff) \div (JitterSteps * JITTER_DIVISOR)
        jittered == backoff + jitter
        capped == IF jittered > MAX_BACKOFF THEN MAX_BACKOFF ELSE jittered
    IN  UTC(Add(Time(clock, "Local"), capped))

(***************************************************************************)
(* Data: stops, parsed bundles, static data, bounding boxes.               *)
(***************************************************************************)
Stop(lat, lon) == [Latitude |-> lat, Longitude |-> lon]

\* the stop lists a parsed bundle can carry: no stop, three stops, one stop
StopLists ==
    { << >>,
      << Stop(10, 20), Stop(12, 18), Stop(11, 19) >>,
      << Stop(30, 40) >> }

\* what io.ReadAll can deliver: a payload ParseStatic rejects, or a bundle
\* (Shapes stands for the parts of a bundle the application does not keep)
Garbage == [malformed |-> TRUE]

\* a parsed bundle: its stops, its services (named after the number of its
\* stops: every bundle has its own), and the parts that are not kept
Bundle(stops) == [Stops |-> stops, Services |-> Len(stops), Shapes |-> "shapes"]
Bundles == { Bundle(stops) : stops \in StopLists }

\* the bodies the servers deliver when several servers are refreshed, and
\* when one is
Payloads == {Garbage} \cup { b \in Bundles : Len(b.Stops) \in {0, 3} }
PayloadsOne == {Garbage} \cup Bundles

NoBundle == [none |-> "bundle"]
NoData == [none |-> "data"]

(***************************************************************************)
(* Reports to the error-reporting collaborator (package report). A report  *)
(* is what it carries: the server_id tag (NoTag: none) and whether the URL *)
(* is in its ExtraContext, and the function that made it.                  *)
(***************************************************************************)
\* server ids are positive
NoTag == 0
NoReport == [none |-> "report"]
Report(by, server_id, url) == [by |-> by, server_id |-> server_id, url |-> url]

\* the errors downloadGTFSBundle returns
DownloadErrors ==
    {"create request", "max retries exceeded", "context canceled",
     "unexpected response status", "read body", "parse"}

\* downloadGTFSBundle: the report made before err is returned.
\* report.ReportErrorWithSentryOptions with Tags server_id and ExtraContext
\* url, but for the body read: report.ReportError(err), with no options
downloadGTFSBundleReport(serverID, e) ==
    IF e = "read body"
      THEN Report("downloadGTFSBundle", NoTag, FALSE)
      ELSE Report("downloadGTFSBundle", serverID, TRUE)

\* the reports made by the goroutine of server s that ends with error e:
\* the one of downloadGTFSBundle if the error is its own, then the one of
\* the goroutine itself (Tags server_id, ExtraContext gtfs_url)
Reports(s, e) ==
    IF e = "nil" THEN << >>
    ELSE IF e \in DownloadErrors
      THEN << downloadGTFSBundleReport(s, e), Report("downloadGTFSBundles", s, TRUE) >>
      ELSE << Report("downloadGTFSBundles", s, TRUE) >>

(***************************************************************************)
(* The gauges of package metrics. A gauge that was never set is Unset.     *)
(***************************************************************************)
Unset == -1
NoGauges ==
    [ScheduleTripForRoute |-> Unset, AgenciesInStaticGtfs |-> Unset,
     AgenciesInCoverageEndpoint |-> Unset, AgenciesMatch |-> Unset]

\* models.NewStaticData: keep only the parts the application uses
NewStaticData(staticBundle) ==
    [Stops |-> staticBundle.Stops, Services |-> staticBundle.Services]

RECURSIVE FoldStops(_, _, _)
FoldStops(stops, i, box) ==
    IF i > Len(stops) THEN box
    ELSE FoldStops(stops, i + 1,
           [MinLat |-> Min(box.MinLat, stops[i].Latitude),
            MaxLat |-> Max(box.MaxLat, stops[i].Latitude),
            MinLon |-> Min(box.MinLon, stops[i].Longitude),
            MaxLon |-> Max(box.MaxLon, stops[i].Longitude)])

\* geo.ComputeBoundingBox: min/max fold; an error on an empty stop list
ComputeBoundingBoxFails(stops) == Len(stops) = 0
ComputeBoundingBox(stops) ==
    FoldStops(stops, 2,
        [MinLat |-> stops[1].Latitude, MaxLat |-> stops[1].Latitude,
         MinLon |-> stops[1].Longitude, MaxLon |-> stops[1].Longitude])

(***************************************************************************)
(* State.                                                                  *)
(***************************************************************************)
VARIABLES
    servers,           \* the servers argument: the list of server ids
    maxRetries,        \* the maxRetries argument
    urlOK,             \* urlOK[s]: http.NewRequest accepts s.GtfsUrl
    cancelled,         \* ctx.Done() is closed
    tickPending,       \* ticker.C holds a tick (a channel of capacity 1)
    loopPc,            \* where refreshGTFSBundles / downloadGTFSBundles is
    spawnIdx,          \* index of the range loop of downloadGTFSBundles
    wg,                \* the sync.WaitGroup counter
    pc,                \* pc[s]: where the goroutine of server s is
    retries,           \* DoWithBackoff: retries
    backoffDelay,      \* DoWithBackoff: backoffDelay
    attempts,          \* number of client.Do calls of the current DoWithBackoff call
    resp,              \* status code of the response DoWithBackoff returned (0: none)
    bundle,            \* the body read / the bundle parsed by the goroutine
    err,               \* the error the goroutine ended with ("nil" when none)
    staticStore,       \* StaticStore: server id -> static data
    boundingBoxStore,  \* geo.BoundingBoxStore: server id -> bounding box
    backoffs,          \* BackoffStore.backoffs: server id -> backoffData
    mu,                \* BackoffStore.mu: the writer holding it, the number of readers
    caller,            \* caller[c]: the BackoffStore call goroutine c is in
    now,               \* the clock read by time.Now()
    updates,           \* updates[id]: UpdateBackoff calls since the last ResetBackoff
    streakAtReset,     \* streakAtReset[id]: what updates[id] was (up to StreakCap) at the
                       \* last ResetBackoff, kept until the second UpdateBackoff after it
    maxUpdates,        \* the longest streak of UpdateBackoff calls the callers make
    payloads,          \* the bodies io.ReadAll can deliver
    reader,            \* the goroutine that reads the stores: the Get it made
    counterCap,        \* where the counters of DoWithBackoff saturate
    reported,          \* reported[s]: the reports the goroutine of s made to the
                       \* error-reporting collaborator in this call, in order
    failedLastCycle,   \* failedLastCycle[s]: the goroutine of s ended the cycle before
                       \* this one with an error (recorded when keepOutcome is set)
    keepOutcome,       \* the outcome of the last cycle is recorded
    wrapped,           \* wrapped[s]: the number of the attempt whose error err[s]
                       \* wraps (%w); 0 when it wraps no error of client.Do
    realtimeStore,     \* RealtimeStore: the realtime data it holds
    rt,                \* the fetchAndStoreGTFSRTFeed call in progress
    lastFeed,          \* lastFeed[s]: the feed the last successful poll of s stored
    gauges,            \* the Prometheus gauges of package metrics
    recon,             \* the call of the reconciler (package metrics) in progress
    svc                \* the getEarliestAndLatestServiceDates call and its result

loopVars == << loopPc, spawnIdx >>
execVars == << retries, backoffDelay, attempts >>
taskVars == << pc, retries, backoffDelay, attempts, resp, bundle, err, reported, wrapped,
              failedLastCycle >>
storeVars == << staticStore, boundingBoxStore >>
envVars == << servers, maxRetries, urlOK, maxUpdates, payloads, counterCap, keepOutcome >>
readerVars == << reader >>
realtimeVars == << realtimeStore, rt, lastFeed >>
metricsVars == << gauges, recon >>
monitorVars == << realtimeVars, metricsVars, svc >>
backoffVars == << backoffs, mu, caller, now, updates, streakAtReset >>
pipelineVars == << cancelled, tickPending, loopVars, wg, taskVars, storeVars >>

vars == << servers, maxRetries, urlOK, maxUpdates, payloads, cancelled, tickPending, loopPc, spawnIdx, wg,
           pc, retries, backoffDelay, attempts, resp, bundle, err,
           staticStore, boundingBoxStore, reader,
           backoffs, mu, caller, now, updates, streakAtReset,
           counterCap, reported, wrapped, failedLastCycle, keepOutcome, realtimeStore, rt, lastFeed, gauges, recon, svc >>

\* the goroutines that call the BackoffStore
Callers == {"a", "b"}
NoBackoff == [none |-> "backoff"]
Idle == [pc |-> "idle"]

\* the state when refreshGTFSBundles is called with the list and maxRetries,
\* the BackoffStore holding the entries of store after the calls of streak
InitWithBackoffs(list, n, store, streak) ==
    /\ servers = list
    /\ maxRetries = n
    /\ urlOK \in [Servers -> BOOLEAN]
    /\ cancelled = FALSE
    /\ tickPending = FALSE
    /\ loopPc = "select"
    /\ spawnIdx = 0
    /\ wg = 0
    /\ pc = [s \in Servers |-> "none"]
    /\ retries = [s \in Servers |-> 0]
    /\ backoffDelay = [s \in Servers |-> BASE_BACKOFF]
    /\ attempts = [s \in Servers |-> 0]
    /\ resp = [s \in Servers |-> 0]
    /\ bundle = [s \in Servers |-> NoBundle]
    /\ err = [s \in Servers |-> "nil"]
    /\ staticStore = [s \in Servers |-> NoData]
    /\ boundingBoxStore = [s \in Servers |-> NoData]
    /\ backoffs = store
    /\ mu = [writer |-> "none", readers |-> 0]
    /\ caller = [c \in Callers |-> Idle]
    /\ now = 0
    /\ updates = streak
    /\ streakAtReset = [s \in Servers |-> 0]
    /\ reader = Idle
    /\ reported = [s \in Servers |-> << >>]
    /\ wrapped = [s \in Servers |-> 0]
    /\ failedLastCycle = [s \in Servers |-> FALSE]
    /\ realtimeStore = NoData
    /\ rt = Idle
    /\ lastFeed = [s \in Servers |-> NoData]
    /\ gauges = NoGauges
    /\ recon = Idle
    /\ svc = Idle

\* the same with the BackoffStore as NewBackoffStore() makes it
InitWith(list, n) ==
    InitWithBackoffs(list, n, [s \in Servers |-> NoBackoff], [s \in Servers |-> 0])

Init ==
    /\ \E n \in 0 .. MaxRetriesBound : InitWith(<< 1, 2 >>, n)
    /\ maxUpdates = MaxUpdates
    /\ counterCap = CounterCap
    /\ keepOutcome = FALSE
    /\ payloads = Payloads

InitOne ==
    /\ \E n \in 0 .. MaxRetriesOne : InitWith(<< 1 >>, n)
    /\ maxUpdates = MaxUpdates
    /\ counterCap = CounterCap
    /\ keepOutcome = FALSE
    /\ payloads = PayloadsOne

\* the BackoffStore right after NewBackoffStore(); the pipeline is not run
InitBackoff ==
    /\ InitWith(<< 1, 2 >>, 0)
    /\ urlOK = [s \in Servers |-> TRUE]
    /\ maxUpdates = MaxUpdates
    /\ counterCap = CounterCap
    /\ keepOutcome = FALSE
    /\ payloads = Payloads

\* the same store, used by goroutines that make shorter streaks
InitBackoffConcurrent ==
    /\ InitWith(<< 1, 2 >>, 0)
    /\ urlOK = [s \in Servers |-> TRUE]
    /\ maxUpdates = MaxConcurrentUpdates
    /\ counterCap = CounterCap
    /\ keepOutcome = FALSE
    /\ payloads = Payloads


(***************************************************************************)
(* The environment: the ticker and the owner of the context.               *)
(***************************************************************************)
\* time.Ticker delivers a tick: handed to refreshGTFSBundles when it is
\* parked in its select, kept in the channel's one-slot buffer otherwise
\* (a tick that finds the slot full is dropped)
TickerFire ==
    /\ loopPc # "returned"
    /\ IF loopPc = "blocked"
         THEN loopPc' = "gotTick" /\ UNCHANGED tickPending
         ELSE tickPending' = TRUE /\ UNCHANGED loopPc
    /\ UNCHANGED << envVars, monitorVars, readerVars, backoffVars, cancelled, spawnIdx, wg, taskVars, storeVars >>

\* the context is cancelled: ctx.Done() is closed, which wakes every
\* goroutine parked in a select on it
CancelContext ==
    /\ ~cancelled
    /\ cancelled' = TRUE
    /\ loopPc' = IF loopPc = "blocked" THEN "gotDone" ELSE loopPc
    /\ UNCHANGED << envVars, monitorVars, readerVars, backoffVars, tickPending, spawnIdx, wg, taskVars, storeVars >>

(***************************************************************************)
(* refreshGTFSBundles: for { select { <-ctx.Done(): return;                *)
(*                                    <-ticker.C: downloadGTFSBundles } }  *)
(* A select with several ready cases takes any of them.                    *)
(***************************************************************************)
refreshSelectDone ==
    /\ loopPc = "select"
    /\ cancelled
    /\ loopPc' = "gotDone"
    /\ UNCHANGED << envVars, monitorVars, readerVars, backoffVars, cancelled, tickPending, spawnIdx, wg, taskVars, storeVars >>

refreshSelectTick ==
    /\ loopPc = "select"
    /\ tickPending
    /\ tickPending' = FALSE
    /\ loopPc' = "gotTick"
    /\ UNCHANGED << envVars, monitorVars, readerVars, backoffVars, cancelled, spawnIdx, wg, taskVars, storeVars >>

refreshSelectBlock ==
    /\ loopPc = "select"
    /\ ~cancelled
    /\ ~tickPending
    /\ loopPc' = "blocked"
    /\ UNCHANGED << envVars, monitorVars, readerVars, backoffVars, cancelled, tickPending, spawnIdx, wg, taskVars, storeVars >>

\* case <-ctx.Done(): log and return
refreshReturn ==
    /\ loopPc = "gotDone"
    /\ loopPc' = "returned"
    /\ UNCHANGED << envVars, monitorVars, readerVars, backoffVars, cancelled, tickPending, spawnIdx, wg, taskVars, storeVars >>

(***************************************************************************)
(* downloadGTFSBundles: one goroutine per server, then wg.Wait().          *)
(***************************************************************************)
\* case <-ticker.C: log, call downloadGTFSBundles (var wg sync.WaitGroup)
downloadGTFSBundlesCall ==
    /\ loopPc = "gotTick"
    /\ loopPc' = "spawn"
    /\ spawnIdx' = 1
    /\ wg' = 0
    /\ UNCHANGED << envVars, monitorVars, readerVars, backoffVars, cancelled, tickPending, taskVars, storeVars >>

\* Variant of downloadGTFSBundlesSpawn: a server with an entry in the
\* BackoffStore is passed over
downloadGTFSBundlesSpawnSkipsBackoff ==
    /\ loopPc = "spawn"
    /\ spawnIdx <= Len(servers)
    /\ IF backoffs[servers[spawnIdx]] # NoBackoff
         THEN UNCHANGED << wg, pc >>
         ELSE /\ wg' = wg + 1
              /\ pc' = [pc EXCEPT ![servers[spawnIdx]] = "start"]
    /\ spawnIdx' = spawnIdx + 1
    /\ UNCHANGED << envVars, monitorVars, readerVars, backoffVars, cancelled, tickPending, loopPc, execVars, resp, bundle, err, reported, wrapped, failedLastCycle, storeVars >>

\* one iteration of the range loop: wg.Add(1); go func() { ... }()
downloadGTFSBundlesSpawn ==
    /\ loopPc = "spawn"
    /\ spawnIdx <= Len(servers)
    /\ wg' = wg + 1
    /\ pc' = [pc EXCEPT ![servers[spawnIdx]] = "start"]
    /\ spawnIdx' = spawnIdx + 1
    /\ UNCHANGED << envVars, monitorVars, readerVars, backoffVars, cancelled, tickPending, loopPc, execVars, resp, bundle, err, reported, wrapped, failedLastCycle, storeVars >>

\* the range loop is over: wg.Wait() is reached
downloadGTFSBundlesWait ==
    /\ loopPc = "spawn"
    /\ spawnIdx > Len(servers)
    /\ loopPc' = "wgWait"
    /\ UNCHANGED << envVars, monitorVars, readerVars, backoffVars, cancelled, tickPending, spawnIdx, wg, taskVars, storeVars >>

\* Variant of downloadGTFSBundlesJoin: the call returns without wg.Wait()
downloadGTFSBundlesNoWait ==
    /\ loopPc = "wgWait"
    /\ loopPc' = "joined"
    /\ UNCHANGED << envVars, monitorVars, readerVars, backoffVars, cancelled, tickPending, spawnIdx, wg, taskVars, storeVars >>

\* wg.Wait() returns when the counter is zero; downloadGTFSBundles returns
downloadGTFSBundlesJoin ==
    /\ loopPc = "wgWait"
    /\ wg = 0
    /\ loopPc' = "joined"
    /\ UNCHANGED << envVars, monitorVars, readerVars, backoffVars, cancelled, tickPending, spawnIdx, wg, taskVars, storeVars >>

\* Variant of refreshNextIteration: the loop is left when a server failed
refreshStopOnError ==
    /\ loopPc = "joined"
    /\ loopPc' = IF \E s \in Servers : err[s] # "nil" THEN "returned" ELSE "select"
    /\ spawnIdx' = 0
    /\ err' = [s \in Servers |-> "nil"]
    /\ reported' = [s \in Servers |-> << >>]
    /\ wrapped' = [s \in Servers |-> 0]
    /\ failedLastCycle' = IF keepOutcome THEN [s \in Servers |-> err[s] # "nil"]
                          ELSE failedLastCycle
    /\ resp' = [s \in Servers |-> 0]
    /\ bundle' = [s \in Servers |-> NoBundle]
    /\ UNCHANGED << envVars, monitorVars, readerVars, backoffVars, cancelled, tickPending, wg, pc, execVars, storeVars >>

\* back in refreshGTFSBundles: the next iteration of the for loop (what the
\* goroutines of the call ended with is known to the log only)
refreshNextIteration ==
    /\ loopPc = "joined"
    /\ loopPc' = "select"
    /\ spawnIdx' = 0
    /\ err' = [s \in Servers |-> "nil"]
    /\ reported' = [s \in Servers |-> << >>]
    /\ wrapped' = [s \in Servers |-> 0]
    /\ failedLastCycle' = IF keepOutcome THEN [s \in Servers |-> err[s] # "nil"]
                          ELSE failedLastCycle
    /\ resp' = [s \in Servers |-> 0]
    /\ bundle' = [s \in Servers |-> NoBundle]
    /\ UNCHANGED << envVars, monitorVars, readerVars, backoffVars, cancelled, tickPending, wg, pc, execVars, storeVars >>

(***************************************************************************)
(* The goroutine of server s: downloadGTFSBundle, then storeGTFSBundle.    *)
(* A local variable that is dead (its function has returned) is put back   *)
(* to its initial value.                                                   *)
(***************************************************************************)
\* the goroutine goes on to step p
Goto(s, p) ==
    /\ pc' = [pc EXCEPT ![s] = p]
    /\ UNCHANGED << err, wg, reported, wrapped, failedLastCycle >>

\* Variant of Finish: wg.Done() is not deferred, so the return on an error
\* leaves it out
FinishDoneNotDeferred(s, e) ==
    /\ err' = [err EXCEPT ![s] = e]
    /\ reported' = [reported EXCEPT ![s] = Reports(s, e)]
    /\ wrapped' = [wrapped EXCEPT ![s] = IF e = err[s] THEN @ ELSE 0]
    /\ UNCHANGED failedLastCycle
    /\ pc' = [pc EXCEPT ![s] = "none"]
    /\ wg' = IF e = "nil" THEN wg - 1 ELSE wg

\* the goroutine returns with error e ("nil": none), reported and logged;
\* the deferred wg.Done() runs as it returns
Finish(s, e) ==
    /\ err' = [err EXCEPT ![s] = e]
    /\ reported' = [reported EXCEPT ![s] = Reports(s, e)]
    /\ wrapped' = [wrapped EXCEPT ![s] = IF e = err[s] THEN @ ELSE 0]
    /\ UNCHANGED failedLastCycle
    /\ pc' = [pc EXCEPT ![s] = "none"]
    /\ wg' = wg - 1

\* Variant of DoReturn: "max retries exceeded" wraps the error of the first
\* attempt of the call
DoReturnWrapsFirst(s, status, e) ==
    /\ resp' = [resp EXCEPT ![s] = status]
    /\ err' = [err EXCEPT ![s] = e]
    /\ wrapped' = [wrapped EXCEPT ![s] = IF e = "max retries exceeded" THEN 1 ELSE 0]
    /\ pc' = [pc EXCEPT ![s] = "doReturned"]
    /\ retries' = [retries EXCEPT ![s] = 0]
    /\ backoffDelay' = [backoffDelay EXCEPT ![s] = BASE_BACKOFF]
    /\ UNCHANGED << wg, reported, failedLastCycle >>

\* DoWithBackoff returns (response status, error) to downloadGTFSBundle;
\* fmt.Errorf("max retries exceeded: %w", err) wraps the err of the
\* client.Do just made (attempts' is its number), ctx.Err() wraps nothing
DoReturn(s, status, e) ==
    /\ resp' = [resp EXCEPT ![s] = status]
    /\ err' = [err EXCEPT ![s] = e]
    /\ wrapped' = [wrapped EXCEPT ![s] = IF e = "max retries exceeded" THEN attempts'[s] ELSE 0]
    /\ pc' = [pc EXCEPT ![s] = "doReturned"]
    /\ retries' = [retries EXCEPT ![s] = 0]
    /\ backoffDelay' = [backoffDelay EXCEPT ![s] = BASE_BACKOFF]
    /\ UNCHANGED << wg, reported, failedLastCycle >>

\* downloadGTFSBundle: http.NewRequest, then the call of DoWithBackoff
\* (backoffDelay := BASE_BACKOFF; retries := 0)
downloadNewRequest(s) ==
    /\ pc[s] = "start"
    /\ IF urlOK[s]
         THEN /\ Goto(s, "do")
              /\ backoffDelay' = [backoffDelay EXCEPT ![s] = BASE_BACKOFF]
              /\ retries' = [retries EXCEPT ![s] = 0]
              /\ attempts' = [attempts EXCEPT ![s] = 0]
         ELSE /\ Finish(s, "create request")
              /\ UNCHANGED execVars
    /\ UNCHANGED << envVars, monitorVars, readerVars, backoffVars, cancelled, tickPending, loopVars, resp, bundle, storeVars >>

\* Variant of DoAfterError: retries > maxRetries in place of >=
DoAfterErrorOffByOne(s) ==
    IF maxRetries > 0 /\ retries[s] > maxRetries
      THEN DoReturn(s, 0, "max retries exceeded")
      ELSE /\ Goto(s, "wait")
           /\ UNCHANGED << retries, backoffDelay, resp >>

\* Variant of DoAfterError: maxRetries = 0 is not taken as "no limit"
DoAfterErrorZeroIsLimit(s) ==
    IF retries[s] >= maxRetries
      THEN DoReturn(s, 0, "max retries exceeded")
      ELSE /\ Goto(s, "wait")
           /\ UNCHANGED << retries, backoffDelay, resp >>

\* DoWithBackoff: what follows a client.Do that returned an error
DoAfterError(s) ==
    IF maxRetries > 0 /\ retries[s] >= maxRetries
      THEN DoReturn(s, 0, "max retries exceeded")
      ELSE /\ Goto(s, "wait")
           /\ UNCHANGED << retries, backoffDelay, resp >>

\* DoWithBackoff: resp, err := client.Do(req). The request carries no
\* context of its own; the client's timeout ends every attempt.
DoAttempt(s) ==
    /\ pc[s] = "do"
    /\ attempts' = [attempts EXCEPT ![s] = Min(attempts[s] + 1, counterCap)]
    /\ \/ \E status \in {StatusOK, StatusInternalServerError} :
            DoReturn(s, status, "nil")
       \/ DoAfterError(s)
    /\ UNCHANGED << envVars, monitorVars, readerVars, backoffVars, cancelled, tickPending, loopVars, bundle, storeVars >>

\* Variant of DoWaitCancelled: the select has no case for ctx.Done(), the
\* wait ends with the timer also when the context is cancelled
DoWaitTimerOnly(s) ==
    /\ pc[s] = "wait"
    /\ cancelled
    /\ backoffDelay' = [backoffDelay EXCEPT ![s] = calculateNewBackoffDelay(backoffDelay[s])]
    /\ retries' = [retries EXCEPT ![s] = Min(retries[s] + 1, counterCap)]
    /\ Goto(s, "do")
    /\ UNCHANGED << envVars, monitorVars, readerVars, backoffVars, cancelled, tickPending, loopVars, attempts, resp, bundle, storeVars >>

\* DoWithBackoff: select, case <-ctx.Done(): return nil, ctx.Err()
DoWaitCancelled(s) ==
    /\ pc[s] = "wait"
    /\ cancelled
    /\ DoReturn(s, 0, "context canceled")
    /\ UNCHANGED << envVars, monitorVars, readerVars, backoffVars, cancelled, tickPending, loopVars, attempts, bundle, storeVars >>

\* Variant of DoWaitElapsed: time.Sleep(backoffDelay) in place of the select
DoWaitSleep(s) ==
    /\ pc[s] = "wait"
    /\ backoffDelay' = [backoffDelay EXCEPT ![s] = calculateNewBackoffDelay(backoffDelay[s])]
    /\ retries' = [retries EXCEPT ![s] = Min(retries[s] + 1, counterCap)]
    /\ Goto(s, "do")
    /\ UNCHANGED << envVars, monitorVars, readerVars, backoffVars, cancelled, tickPending, loopVars, attempts, resp, bundle, storeVars >>

\* Variant of DoWaitElapsed: backoffDelay is not recomputed after the wait
DoWaitElapsedKeepsDelay(s) ==
    /\ pc[s] = "wait"
    /\ ~cancelled
    /\ retries' = [retries EXCEPT ![s] = Min(retries[s] + 1, counterCap)]
    /\ Goto(s, "do")
    /\ UNCHANGED << envVars, monitorVars, readerVars, backoffVars, cancelled, tickPending, loopVars, backoffDelay, attempts, resp, bundle, storeVars >>

\* DoWithBackoff: select, case <-time.After(backoffDelay); then
\* backoffDelay = calculateNewBackoffDelay(backoffDelay); retries++.
\* A goroutine parked in the select is woken by the channel that becomes
\* ready first: once ctx.Done() is closed, the timer no longer wins.
DoWaitElapsed(s) ==
    /\ pc[s] = "wait"
    /\ ~cancelled
    /\ backoffDelay' = [backoffDelay EXCEPT ![s] = calculateNewBackoffDelay(backoffDelay[s])]
    /\ retries' = [retries EXCEPT ![s] = Min(retries[s] + 1, counterCap)]
    /\ Goto(s, "do")
    /\ UNCHANGED << envVars, monitorVars, readerVars, backoffVars, cancelled, tickPending, loopVars, attempts, resp, bundle, storeVars >>

\* Variant of downloadCheckResponse: resp.StatusCode is not looked at
downloadCheckErrorOnly(s) ==
    /\ pc[s] = "doReturned"
    /\ IF err[s] # "nil"
         THEN Finish(s, err[s])
         ELSE Goto(s, "read")
    /\ attempts' = [attempts EXCEPT ![s] = 0]
    /\ UNCHANGED << envVars, monitorVars, readerVars, backoffVars, cancelled, tickPending, loopVars, retries, backoffDelay, resp, bundle, storeVars >>

\* downloadGTFSBundle after DoWithBackoff: the error check, then the check
\* of resp.StatusCode against http.StatusOK
downloadCheckResponse(s) ==
    /\ pc[s] = "doReturned"
    /\ IF err[s] # "nil"
         THEN Finish(s, err[s])
         ELSE IF resp[s] # StatusOK
                THEN Finish(s, "unexpected response status")
                ELSE Goto(s, "read")
    /\ attempts' = [attempts EXCEPT ![s] = 0]
    /\ UNCHANGED << envVars, monitorVars, readerVars, backoffVars, cancelled, tickPending, loopVars, retries, backoffDelay, resp, bundle, storeVars >>

\* downloadGTFSBundle: data, err := io.ReadAll(resp.Body)
downloadReadBody(s) ==
    /\ pc[s] = "read"
    /\ \/ /\ Finish(s, "read body")
          /\ UNCHANGED bundle
       \/ \E data \in payloads :
            /\ bundle' = [bundle EXCEPT ![s] = data]
            /\ Goto(s, "parse")
    /\ UNCHANGED << envVars, monitorVars, readerVars, backoffVars, cancelled, tickPending, loopVars, execVars, resp, storeVars >>

\* Variant of downloadParse: a payload that does not parse removes the
\* snapshot of the server
downloadParseClearsStore(s) ==
    /\ pc[s] = "parse"
    /\ IF bundle[s] = Garbage
         THEN /\ Finish(s, "parse")
              /\ bundle' = [bundle EXCEPT ![s] = NoBundle]
              /\ staticStore' = [staticStore EXCEPT ![s] = NoData]
         ELSE /\ Goto(s, "store")
              /\ UNCHANGED << bundle, staticStore >>
    /\ UNCHANGED << envVars, monitorVars, readerVars, backoffVars, cancelled, tickPending, loopVars, execVars, resp, boundingBoxStore >>

\* downloadGTFSBundle: remoteGtfs.ParseStatic(data); on success the bundle
\* is returned and the goroutine goes on to storeGTFSBundle
downloadParse(s) ==
    /\ pc[s] = "parse"
    /\ IF bundle[s] = Garbage
         THEN /\ Finish(s, "parse")
              /\ bundle' = [bundle EXCEPT ![s] = NoBundle]
         ELSE /\ Goto(s, "store")
              /\ UNCHANGED bundle
    /\ UNCHANGED << envVars, monitorVars, readerVars, backoffVars, cancelled, tickPending, loopVars, execVars, resp, storeVars >>

\* Variant of storeSetStatic: the key is the range variable of the loop that
\* started the goroutines (the id of the last server) instead of serverID
storeSetStaticLoopVariable(s) ==
    /\ pc[s] = "store"
    /\ staticStore' = [staticStore EXCEPT ![servers[Len(servers)]] = NewStaticData(bundle[s])]
    /\ Goto(s, "bbox")
    /\ UNCHANGED << envVars, monitorVars, readerVars, backoffVars, cancelled, tickPending, loopVars, execVars, resp, bundle, boundingBoxStore >>

\* Variant of storeSetStatic: the call of staticStore.Set is missing
storeSkipStatic(s) ==
    /\ pc[s] = "store"
    /\ Goto(s, "bbox")
    /\ UNCHANGED << envVars, monitorVars, readerVars, backoffVars, cancelled, tickPending, loopVars, execVars, resp, bundle, storeVars >>

\* Variant of storeSetStatic: an entry that exists is updated in place, the
\* stops first
storeSetStaticInPlace(s) ==
    /\ pc[s] = "store"
    /\ staticStore' = [staticStore EXCEPT ![s] =
                         IF @ = NoData THEN NewStaticData(bundle[s])
                         ELSE [@ EXCEPT !.Stops = bundle[s].Stops]]
    /\ Goto(s, "bbox")
    /\ UNCHANGED << envVars, monitorVars, readerVars, backoffVars, cancelled, tickPending, loopVars, execVars, resp, bundle, boundingBoxStore >>

\* storeGTFSBundle: staticData := models.NewStaticData(staticBundle);
\* staticStore.Set(serverID, staticData)
storeSetStatic(s) ==
    /\ pc[s] = "store"
    /\ staticStore' = [staticStore EXCEPT ![s] = NewStaticData(bundle[s])]
    /\ Goto(s, "bbox")
    /\ UNCHANGED << envVars, monitorVars, readerVars, backoffVars, cancelled, tickPending, loopVars, execVars, resp, bundle, boundingBoxStore >>

\* Variant of storeSetBoundingBox: a failed computation removes the box
storeSetBoundingBoxClearsOnError(s) ==
    /\ pc[s] = "bbox"
    /\ LET staticData == NewStaticData(bundle[s])
       IN  IF ComputeBoundingBoxFails(staticData.Stops)
             THEN /\ Finish(s, "bounding box")
                  /\ boundingBoxStore' = [boundingBoxStore EXCEPT ![s] = NoData]
             ELSE /\ boundingBoxStore' =
                       [boundingBoxStore EXCEPT ![s] = ComputeBoundingBox(staticData.Stops)]
                  /\ Finish(s, "nil")
    /\ UNCHANGED << envVars, monitorVars, readerVars, backoffVars, cancelled, tickPending, loopVars, execVars, resp, bundle, staticStore >>

\* Variant of storeSetBoundingBox: a box is stored only when there is none
storeSetBoundingBoxIfAbsent(s) ==
    /\ pc[s] = "bbox"
    /\ LET staticData == NewStaticData(bundle[s])
       IN  IF ComputeBoundingBoxFails(staticData.Stops)
             THEN /\ Finish(s, "bounding box")
                  /\ UNCHANGED boundingBoxStore
             ELSE /\ boundingBoxStore' =
                       [boundingBoxStore EXCEPT ![s] =
                          IF @ = NoData THEN ComputeBoundingBox(staticData.Stops) ELSE @]
                  /\ Finish(s, "nil")
    /\ UNCHANGED << envVars, monitorVars, readerVars, backoffVars, cancelled, tickPending, loopVars, execVars, resp, bundle, staticStore >>

\* storeGTFSBundle: bbox, err := geo.ComputeBoundingBox(staticData.Stops);
\* on error return it, else boundingBoxStore.Set(serverID, bbox), return nil
storeSetBoundingBox(s) ==
    /\ pc[s] = "bbox"
    /\ LET staticData == NewStaticData(bundle[s])
       IN  IF ComputeBoundingBoxFails(staticData.Stops)
             THEN /\ Finish(s, "bounding box")
                  /\ UNCHANGED boundingBoxStore
             ELSE /\ boundingBoxStore' =
                       [boundingBoxStore EXCEPT ![s] = ComputeBoundingBox(staticData.Stops)]
                  /\ Finish(s, "nil")
    /\ UNCHANGED << envVars, monitorVars, readerVars, backoffVars, cancelled, tickPending, loopVars, execVars, resp, bundle, staticStore >>

TaskStep(s) ==
    \/ downloadNewRequest(s)
    \/ DoAttempt(s)
    \/ DoWaitCancelled(s)
    \/ DoWaitElapsed(s)
    \/ downloadCheckResponse(s)
    \/ downloadReadBody(s)
    \/ downloadParse(s)
    \/ storeSetStatic(s)
    \/ storeSetBoundingBox(s)

LoopStep ==
    \/ refreshSelectDone
    \/ refreshSelectTick
    \/ refreshSelectBlock
    \/ refreshReturn
    \/ downloadGTFSBundlesCall
    \/ downloadGTFSBundlesSpawn
    \/ downloadGTFSBundlesWait
    \/ downloadGTFSBundlesJoin
    \/ refreshNextIteration

Next ==
    \/ TickerFire
    \/ CancelContext
    \/ LoopStep
    \/ \E s \in Servers : TaskStep(s)

Spec == Init /\ [][Next]_vars

(***************************************************************************)
(* A goroutine that reads the stores while the refresh runs. Get returns   *)
(* the value stored under the id (NoData: not found), read under the       *)
(* store's read lock.                                                      *)
(***************************************************************************)
\* getStopLocationsByIDs: staticData, ok := staticStore.Get(serverID)
getStopLocationsByIDsGet(serverID) ==
    /\ reader.pc = "idle"
    /\ reader' = [pc |-> "got", store |-> "static", serverID |-> serverID,
                  value |-> staticStore[serverID]]
    /\ UNCHANGED << envVars, monitorVars, backoffVars, pipelineVars >>

\* boundingBoxStore.Get(serverID)
BoundingBoxStoreGet(serverID) ==
    /\ reader.pc = "idle"
    /\ reader' = [pc |-> "got", store |-> "boundingBox", serverID |-> serverID,
                  value |-> boundingBoxStore[serverID]]
    /\ UNCHANGED << envVars, monitorVars, backoffVars, pipelineVars >>

\* the reader has used the value and returns
ReaderReturn ==
    /\ reader.pc = "got"
    /\ reader' = Idle
    /\ UNCHANGED << envVars, monitorVars, backoffVars, pipelineVars >>

ReaderStep ==
    \/ \E serverID \in Servers : getStopLocationsByIDsGet(serverID)
    \/ \E serverID \in Servers : BoundingBoxStoreGet(serverID)
    \/ ReaderReturn

SpecOne == InitOne /\ [][Next]_vars

(***************************************************************************)
(* Fairness: every goroutine that can take a step takes one (an HTTP       *)
(* attempt ends by the client's timeout, a timer fires, the ticker ticks); *)
(* a select that is entered again and again with ctx.Done() ready takes    *)
(* that case at some point (the runtime picks among ready cases at         *)
(* random). Nothing makes the owner of the context cancel it.              *)
(***************************************************************************)
Fairness ==
    /\ WF_vars(TickerFire)
    /\ WF_vars(LoopStep)
    /\ SF_vars(refreshSelectDone)
    /\ \A s \in Servers : WF_vars(TaskStep(s))

FairSpec == Spec /\ Fairness

\* one server is refreshed while a goroutine reads the stores
NextStores == Next \/ ReaderStep

SpecStores == InitOne /\ [][NextStores]_vars

\* one server, refreshed with a maxRetries that lets the delay of
\* DoWithBackoff grow to its cap; the counters saturate above it
InitExecutor ==
    /\ \E n \in 0 .. MaxRetriesExecutor : InitWith(<< 1 >>, n)
    /\ maxUpdates = MaxUpdates
    /\ counterCap = MaxRetriesExecutor + 2
    /\ keepOutcome = FALSE
    /\ payloads = Payloads

SpecExecutor == InitExecutor /\ [][Next]_vars

FairSpecOne == SpecOne /\ Fairness


(***************************************************************************)
(* BackoffStore (package config). The methods run under s.mu: Lock or      *)
(* RLock on entry, the deferred Unlock or RUnlock on return.               *)
(***************************************************************************)
\* time passes
ClockAdvance ==
    /\ now < MaxNow
    /\ now' = now + 1
    /\ UNCHANGED << envVars, monitorVars, readerVars, pipelineVars, backoffs, mu, caller, updates, streakAtReset >>

\* Variant of UpdateBackoffLock: the method does not take s.mu
UpdateBackoffNoLock(c, serverID) ==
    /\ caller[c].pc = "idle"
    /\ updates[serverID] < maxUpdates
    /\ caller' = [caller EXCEPT ![c] = [pc |-> "update", serverID |-> serverID]]
    /\ UNCHANGED << envVars, monitorVars, readerVars, pipelineVars, backoffs, mu, now, updates, streakAtReset >>

\* UpdateBackoff(serverID): s.mu.Lock()
UpdateBackoffLock(c, serverID) ==
    /\ caller[c].pc = "idle"
    /\ updates[serverID] < maxUpdates
    /\ mu.writer = "none" /\ mu.readers = 0
    /\ mu' = [mu EXCEPT !.writer = c]
    /\ caller' = [caller EXCEPT ![c] = [pc |-> "update", serverID |-> serverID]]
    /\ UNCHANGED << envVars, monitorVars, readerVars, pipelineVars, backoffs, now, updates, streakAtReset >>

\* UpdateBackoff: backoff, exists := s.backoffs[serverID]
UpdateBackoffRead(c) ==
    /\ caller[c].pc = "update"
    /\ caller' = [caller EXCEPT ![c] =
                    [pc |-> "updateWrite", serverID |-> caller[c].serverID,
                     backoff |-> backoffs[caller[c].serverID]]]
    /\ UNCHANGED << envVars, monitorVars, readerVars, pipelineVars, backoffs, mu, now, updates, streakAtReset >>

\* UpdateBackoff: the entry written for the entry read
UpdatedBackoff(backoff, r, clock) ==
    IF backoff # NoBackoff
      THEN LET delay == calculateNewBackoffDelay(backoff.BackoffDelay)
           IN  [BackoffDelay |-> delay,
                NextRetryAt |-> calculateNextRetryAt(delay, r, clock)]
      ELSE [BackoffDelay |-> BASE_BACKOFF,
            NextRetryAt |-> calculateNextRetryAt(BASE_BACKOFF, r, clock)]

\* UpdateBackoff: s.backoffs[serverID] = ..., then the deferred s.mu.Unlock()
UpdateBackoffWrite(c) ==
    /\ caller[c].pc = "updateWrite"
    /\ \E r \in RandomValues :
         backoffs' = [backoffs EXCEPT ![caller[c].serverID] =
                        UpdatedBackoff(caller[c].backoff, r, now)]
    /\ updates' = [updates EXCEPT ![caller[c].serverID] = @ + 1]
    /\ mu' = [mu EXCEPT !.writer = "none"]
    /\ caller' = [caller EXCEPT ![c] = Idle]
    /\ streakAtReset' = [streakAtReset EXCEPT ![caller[c].serverID] =
                            IF updates[caller[c].serverID] >= 1 THEN 0 ELSE @]
    /\ UNCHANGED << envVars, monitorVars, readerVars, pipelineVars, now >>

\* ResetBackoff(serverID): s.mu.Lock()
ResetBackoffLock(c, serverID) ==
    /\ caller[c].pc = "idle"
    /\ mu.writer = "none" /\ mu.readers = 0
    /\ mu' = [mu EXCEPT !.writer = c]
    /\ caller' = [caller EXCEPT ![c] = [pc |-> "reset", serverID |-> serverID]]
    /\ UNCHANGED << envVars, monitorVars, readerVars, pipelineVars, backoffs, now, updates, streakAtReset >>

\* Variant of ResetBackoffDelete: the delete uses a key that is not in the map
ResetBackoffWrongKey(c) ==
    /\ caller[c].pc = "reset"
    /\ updates' = [updates EXCEPT ![caller[c].serverID] = 0]
    /\ streakAtReset' = [streakAtReset EXCEPT ![caller[c].serverID] =
                            Min(updates[caller[c].serverID], StreakCap)]
    /\ mu' = [mu EXCEPT !.writer = "none"]
    /\ caller' = [caller EXCEPT ![c] = Idle]
    /\ UNCHANGED << envVars, monitorVars, readerVars, pipelineVars, backoffs, now >>

\* Variant of ResetBackoffDelete: the map is replaced by an empty one
ResetBackoffClearsAll(c) ==
    /\ caller[c].pc = "reset"
    /\ backoffs' = [id \in Servers |-> NoBackoff]
    /\ updates' = [id \in Servers |-> 0]
    /\ streakAtReset' = [id \in Servers |-> Min(updates[id], StreakCap)]
    /\ mu' = [mu EXCEPT !.writer = "none"]
    /\ caller' = [caller EXCEPT ![c] = Idle]
    /\ UNCHANGED << envVars, monitorVars, readerVars, pipelineVars, now >>

\* ResetBackoff: delete(s.backoffs, serverID), then the deferred Unlock
ResetBackoffDelete(c) ==
    /\ caller[c].pc = "reset"
    /\ backoffs' = [backoffs EXCEPT ![caller[c].serverID] = NoBackoff]
    /\ updates' = [updates EXCEPT ![caller[c].serverID] = 0]
    /\ streakAtReset' = [streakAtReset EXCEPT ![caller[c].serverID] =
                            Min(updates[caller[c].serverID], StreakCap)]
    /\ mu' = [mu EXCEPT !.writer = "none"]
    /\ caller' = [caller EXCEPT ![c] = Idle]
    /\ UNCHANGED << envVars, monitorVars, readerVars, pipelineVars, now >>

\* NextRetryAt(serverID): s.mu.RLock()
NextRetryAtRLock(c, serverID) ==
    /\ caller[c].pc = "idle"
    /\ mu.writer = "none"
    /\ mu' = [mu EXCEPT !.readers = @ + 1]
    /\ caller' = [caller EXCEPT ![c] = [pc |-> "get", serverID |-> serverID]]
    /\ UNCHANGED << envVars, monitorVars, readerVars, pipelineVars, backoffs, now, updates, streakAtReset >>

\* Variant of NextRetryAtResult: exists is true also without an entry
NextRetryAtResultAlwaysExists(backoff) ==
    IF backoff # NoBackoff
      THEN [time |-> UTC(backoff.NextRetryAt), exists |-> TRUE]
      ELSE [time |-> ZeroTime, exists |-> TRUE]

\* NextRetryAt: the value returned for the entry found
NextRetryAtResult(backoff) ==
    IF backoff # NoBackoff
      THEN [time |-> UTC(backoff.NextRetryAt), exists |-> TRUE]
      ELSE [time |-> ZeroTime, exists |-> FALSE]

\* NextRetryAt: read s.backoffs[serverID], the deferred RUnlock, return
NextRetryAtReturn(c) ==
    /\ caller[c].pc = "get"
    /\ mu' = [mu EXCEPT !.readers = @ - 1]
    /\ caller' = [caller EXCEPT ![c] =
                    [pc |-> "got", serverID |-> caller[c].serverID,
                     result |-> NextRetryAtResult(backoffs[caller[c].serverID])]]
    /\ UNCHANGED << envVars, monitorVars, readerVars, pipelineVars, backoffs, now, updates, streakAtReset >>

\* the caller has used the value NextRetryAt returned
NextRetryAtUsed(c) ==
    /\ caller[c].pc = "got"
    /\ caller' = [caller EXCEPT ![c] = Idle]
    /\ UNCHANGED << envVars, monitorVars, readerVars, pipelineVars, backoffs, mu, now, updates, streakAtReset >>

BackoffStep(c) ==
    \/ \E serverID \in Servers : UpdateBackoffLock(c, serverID)
    \/ UpdateBackoffRead(c)
    \/ UpdateBackoffWrite(c)
    \/ \E serverID \in Servers : ResetBackoffLock(c, serverID)
    \/ ResetBackoffDelete(c)
    \/ \E serverID \in Servers : NextRetryAtRLock(c, serverID)
    \/ NextRetryAtReturn(c)
    \/ NextRetryAtUsed(c)

\* one goroutine uses the store
NextBackoff ==
    \/ ClockAdvance
    \/ BackoffStep("a")

SpecBackoff == InitBackoff /\ [][NextBackoff]_vars

\* the goroutines of Callers use the store concurrently (within one reading
\* of the clock)
NextBackoffConcurrent == \E c \in Callers : BackoffStep(c)

SpecBackoffConcurrent == InitBackoffConcurrent /\ [][NextBackoffConcurrent]_vars

\* what the BackoffStore can hold while the refresh runs: nothing, or the
\* entry of server 1 after one UpdateBackoff(1) at time 0
BackoffStoreContents ==
    { [backoffs |-> [s \in Servers |-> NoBackoff], updates |-> [s \in Servers |-> 0]],
      [backoffs |-> [s \in Servers |-> IF s = 1 THEN UpdatedBackoff(NoBackoff, 0, 0)
                                                ELSE NoBackoff],
       updates |-> [s \in Servers |-> IF s = 1 THEN 1 ELSE 0]] }

\* two servers are refreshed with a limit of retries, whatever the
\* BackoffStore holds; the outcome of the last cycle is recorded
InitCycles ==
    /\ \E n \in 1 .. MaxRetriesBound, store \in BackoffStoreContents :
          InitWithBackoffs(<< 1, 2 >>, n, store.backoffs, store.updates)
    /\ maxUpdates = MaxUpdates
    /\ counterCap = CounterCap
    /\ keepOutcome = TRUE
    /\ payloads = Payloads

SpecCycles == InitCycles /\ [][Next]_vars

(***************************************************************************)
(* fetchAndStoreGTFSRTFeed (package gtfs): one poll of the vehicle         *)
(* position feed of a server. All polls are given the same RealtimeStore;  *)
(* its Set takes the realtime data and nothing else.                       *)
(***************************************************************************)
\* a poll of one server delivers one of MaxFeedVersion feeds
MaxFeedVersion == 2

\* the feed message served at server.VehiclePositionUrl
Feed(server, version) == [vehiclesOf |-> server, version |-> version]

\* what io.ReadAll can deliver from the response of the server
RealtimePayloads(server) ==
    {Garbage} \cup { Feed(server, v) : v \in 1 .. MaxFeedVersion }

\* models.NewRealtimeData(gtfsRT)
NewRealtimeData(gtfsRT) == [Vehicles |-> gtfsRT]

\* the function goes on to step p
fetchGoto(p) ==
    /\ rt' = [rt EXCEPT !.pc = p]
    /\ UNCHANGED << realtimeStore, lastFeed >>

\* the function reports (with the server_id tag and the URL, or with
\* neither) and returns the error e
fetchFail(e, tagged) ==
    /\ rt' = [rt EXCEPT !.pc = "returned", !.err = e,
                        !.report = IF tagged
                                     THEN Report("fetchAndStoreGTFSRTFeed", rt.server, TRUE)
                                     ELSE Report("fetchAndStoreGTFSRTFeed", NoTag, FALSE)]
    /\ UNCHANGED << realtimeStore, lastFeed >>

\* the caller calls fetchAndStoreGTFSRTFeed(server, realtimeStore, client)
fetchAndStoreGTFSRTFeedCall(server) ==
    /\ rt.pc = "idle"
    /\ rt' = [pc |-> "parseURL", server |-> server, attempts |-> 0, status |-> 0,
              data |-> NoBundle, err |-> "nil", report |-> NoReport,
              before |-> realtimeStore]
    /\ UNCHANGED << envVars, readerVars, backoffVars, pipelineVars, metricsVars, svc,
                    realtimeStore, lastFeed >>

\* parsedURL, err := url.Parse(server.VehiclePositionUrl)
fetchParseURL ==
    /\ rt.pc = "parseURL"
    /\ \/ fetchGoto("newRequest")
       \/ fetchFail("parse url", TRUE)
    /\ UNCHANGED << envVars, readerVars, backoffVars, pipelineVars, metricsVars, svc >>

\* req, err := http.NewRequest("GET", parsedURL.String(), nil), and the
\* API key header when the server has one
fetchNewRequest ==
    /\ rt.pc = "newRequest"
    /\ \/ fetchGoto("do")
       \/ fetchFail("create request", FALSE)
    /\ UNCHANGED << envVars, readerVars, backoffVars, pipelineVars, metricsVars, svc >>

\* Variant of fetchDo: a failed request is sent once more
fetchDoRetries ==
    /\ rt.pc = "do"
    /\ \/ \E status \in {StatusOK, StatusInternalServerError} :
            /\ rt' = [rt EXCEPT !.pc = "read", !.status = status, !.attempts = @ + 1]
            /\ UNCHANGED << realtimeStore, lastFeed >>
       \/ IF rt.attempts = 0
            THEN /\ rt' = [rt EXCEPT !.attempts = @ + 1]
                 /\ UNCHANGED << realtimeStore, lastFeed >>
            ELSE /\ rt' = [rt EXCEPT !.pc = "returned", !.err = "fetch", !.attempts = @ + 1,
                                     !.report = Report("fetchAndStoreGTFSRTFeed", rt.server, TRUE)]
                 /\ UNCHANGED << realtimeStore, lastFeed >>
    /\ UNCHANGED << envVars, readerVars, backoffVars, pipelineVars, metricsVars, svc >>

\* resp, err := client.Do(req); on an error report and return it. The
\* status of the response is not looked at.
fetchDo ==
    /\ rt.pc = "do"
    /\ \/ \E status \in {StatusOK, StatusInternalServerError} :
            /\ rt' = [rt EXCEPT !.pc = "read", !.status = status, !.attempts = @ + 1]
            /\ UNCHANGED << realtimeStore, lastFeed >>
       \/ /\ rt' = [rt EXCEPT !.pc = "returned", !.err = "fetch", !.attempts = @ + 1,
                               !.report = Report("fetchAndStoreGTFSRTFeed", rt.server, TRUE)]
          /\ UNCHANGED << realtimeStore, lastFeed >>
    /\ UNCHANGED << envVars, readerVars, backoffVars, pipelineVars, metricsVars, svc >>

\* data, err := io.ReadAll(resp.Body)
fetchReadBody ==
    /\ rt.pc = "read"
    /\ \/ fetchFail("read body", FALSE)
       \/ \E data \in RealtimePayloads(rt.server) :
            /\ rt' = [rt EXCEPT !.pc = "parse", !.data = data]
            /\ UNCHANGED << realtimeStore, lastFeed >>
    /\ UNCHANGED << envVars, readerVars, backoffVars, pipelineVars, metricsVars, svc >>

\* Variant of fetchParseRealtime: data that does not parse empties the store
fetchParseRealtimeClearsStore ==
    /\ rt.pc = "parse"
    /\ IF rt.data = Garbage
         THEN /\ rt' = [rt EXCEPT !.pc = "returned", !.err = "parse",
                                  !.report = Report("fetchAndStoreGTFSRTFeed", NoTag, FALSE)]
              /\ realtimeStore' = NoData
              /\ UNCHANGED lastFeed
         ELSE fetchGoto("set")
    /\ UNCHANGED << envVars, readerVars, backoffVars, pipelineVars, metricsVars, svc >>

\* gtfsRT, err := remoteGtfs.ParseRealtime(data, ...)
fetchParseRealtime ==
    /\ rt.pc = "parse"
    /\ IF rt.data = Garbage
         THEN fetchFail("parse", FALSE)
         ELSE fetchGoto("set")
    /\ UNCHANGED << envVars, readerVars, backoffVars, pipelineVars, metricsVars, svc >>

\* realtimeData := models.NewRealtimeData(gtfsRT);
\* realtimeStore.Set(realtimeData); return nil
fetchSet ==
    /\ rt.pc = "set"
    /\ realtimeStore' = NewRealtimeData(rt.data)
    /\ lastFeed' = [lastFeed EXCEPT ![rt.server] = NewRealtimeData(rt.data)]
    /\ rt' = [rt EXCEPT !.pc = "returned"]
    /\ UNCHANGED << envVars, readerVars, backoffVars, pipelineVars, metricsVars, svc >>

\* the caller has the result; the locals of the call are gone
fetchReturn ==
    /\ rt.pc = "returned"
    /\ rt' = Idle
    /\ UNCHANGED << envVars, readerVars, backoffVars, pipelineVars, metricsVars, svc,
                    realtimeStore, lastFeed >>

NextRealtime ==
    \/ \E server \in Servers : fetchAndStoreGTFSRTFeedCall(server)
    \/ fetchParseURL
    \/ fetchNewRequest
    \/ fetchDo
    \/ fetchReadBody
    \/ fetchParseRealtime
    \/ fetchSet
    \/ fetchReturn

\* the servers are polled one call at a time; the refresh is not run
InitRealtime ==
    /\ InitWith(<< 1, 2 >>, 0)
    /\ urlOK = [s \in Servers |-> TRUE]
    /\ maxUpdates = MaxUpdates
    /\ counterCap = CounterCap
    /\ keepOutcome = FALSE
    /\ payloads = Payloads

SpecRealtime == InitRealtime /\ [][NextRealtime]_vars

(***************************************************************************)
(* The reconciler (package metrics): CheckScheduledTripRoute compares the  *)
(* trips of a route the API returns with the trips of the local bundle,    *)
(* CheckAgenciesWithCoverageMatch the agencies of the coverage endpoint    *)
(* with the agencies of the local bundle. One server and one route: one    *)
(* child gauge per GaugeVec.                                               *)
(***************************************************************************)
\* counts range over 0 .. MaxCount
MaxCount == 3

\* what the API call gives: an error, no response (nil), or a response
\* with n entries
ApiResponses ==
    {[kind |-> "error", n |-> 0], [kind |-> "absent", n |-> 0]}
      \cup { [kind |-> "ok", n |-> n] : n \in 0 .. MaxCount }

\* gauge.Set(v)
GaugeSet(name, v) == gauges' = [gauges EXCEPT ![name] = v]

\* the caller calls CheckScheduledTripRoute(dataPath, server, routeID)
CheckScheduledTripRouteCall ==
    /\ recon.pc = "idle"
    /\ recon' = [pc |-> "getTrips", fn |-> "CheckScheduledTripRoute", response |-> [kind |-> "none", n |-> 0],
                 apiCount |-> 0, apiErr |-> "nil", localCount |-> 0, err |-> "nil",
                 match |-> Unset, before |-> gauges]
    /\ UNCHANGED << envVars, readerVars, backoffVars, pipelineVars, realtimeVars, svc, gauges >>

\* Variant of GetScheduledTripRoute: a nil response is an error
GetScheduledTripRouteNilIsError ==
    /\ recon.pc = "getTrips"
    /\ \E response \in ApiResponses :
         IF response.kind \in {"error", "absent"}
           THEN /\ recon' = [recon EXCEPT !.pc = "gotTrips", !.response = response,
                                          !.apiCount = 0, !.apiErr = "api"]
                /\ UNCHANGED gauges
           ELSE /\ GaugeSet("ScheduleTripForRoute", response.n)
                /\ recon' = [recon EXCEPT !.pc = "gotTrips", !.response = response,
                                          !.apiCount = response.n]
    /\ UNCHANGED << envVars, readerVars, backoffVars, pipelineVars, realtimeVars, svc >>

\* GetScheduledTripRoute: the API error is captured and returned with 0;
\* a nil response gives (0, nil); else the gauge ScheduleTripForRoute of
\* (server, route) is set to len(trips), which is returned
GetScheduledTripRoute ==
    /\ recon.pc = "getTrips"
    /\ \E response \in ApiResponses :
         IF response.kind = "error"
           THEN /\ recon' = [recon EXCEPT !.pc = "gotTrips", !.response = response,
                                          !.apiCount = 0, !.apiErr = "api"]
                /\ UNCHANGED gauges
           ELSE IF response.kind = "absent"
             THEN /\ recon' = [recon EXCEPT !.pc = "gotTrips", !.response = response,
                                            !.apiCount = 0]
                  /\ UNCHANGED gauges
             ELSE /\ GaugeSet("ScheduleTripForRoute", response.n)
                  /\ recon' = [recon EXCEPT !.pc = "gotTrips", !.response = response,
                                            !.apiCount = response.n]
    /\ UNCHANGED << envVars, readerVars, backoffVars, pipelineVars, realtimeVars, svc >>

\* Variant of CheckScheduledTripRouteGot: the error of the getter is not
\* looked at
CheckScheduledTripRouteGotIgnoresError ==
    /\ recon.pc = "gotTrips"
    /\ recon' = [recon EXCEPT !.pc = "countLocal"]
    /\ UNCHANGED << envVars, readerVars, backoffVars, pipelineVars, realtimeVars, svc, gauges >>

\* CheckScheduledTripRoute: if err != nil { return fmt.Errorf(...) }
CheckScheduledTripRouteGot ==
    /\ recon.pc = "gotTrips"
    /\ recon' = IF recon.apiErr # "nil"
                  THEN [recon EXCEPT !.pc = "returned", !.err = "api"]
                  ELSE [recon EXCEPT !.pc = "countLocal"]
    /\ UNCHANGED << envVars, readerVars, backoffVars, pipelineVars, realtimeVars, svc, gauges >>

\* CheckScheduledTripRoute: CountScheduledTripRoute(dataPath, routeID), the
\* number of trips of the route in the local bundle; its error is returned
CountScheduledTripRoute ==
    /\ recon.pc = "countLocal"
    /\ \/ recon' = [recon EXCEPT !.pc = "returned", !.err = "local"]
       \/ \E n \in 0 .. MaxCount :
            recon' = [recon EXCEPT !.pc = "match", !.localCount = n]
    /\ UNCHANGED << envVars, readerVars, backoffVars, pipelineVars, realtimeVars, svc, gauges >>

\* Variant of CheckScheduledTripRouteMatch: match is 1 when the API has at
\* least the trips of the bundle
CheckScheduledTripRouteMatchAtLeast ==
    /\ recon.pc = "match"
    /\ LET match == IF recon.apiCount >= recon.localCount THEN 1 ELSE 0
       IN  /\ GaugeSet("ScheduleTripForRoute", match)
           /\ recon' = [recon EXCEPT !.pc = "returned", !.match = match]
    /\ UNCHANGED << envVars, readerVars, backoffVars, pipelineVars, realtimeVars, svc >>

\* CheckScheduledTripRoute: match := 0; if apiTripRoutes == gtfsrtTripRoutes
\* { match = 1 }; ScheduleTripForRoute.WithLabelValues(server id,
\* routeID).Set(match); return nil. The gauge and the labels are those of
\* the count set by GetScheduledTripRoute.
CheckScheduledTripRouteMatch ==
    /\ recon.pc = "match"
    /\ LET match == IF recon.apiCount = recon.localCount THEN 1 ELSE 0
       IN  /\ GaugeSet("ScheduleTripForRoute", match)
           /\ recon' = [recon EXCEPT !.pc = "returned", !.match = match]
    /\ UNCHANGED << envVars, readerVars, backoffVars, pipelineVars, realtimeVars, svc >>

\* the caller calls CheckAgenciesWithCoverageMatch(cachePath, logger, server)
CheckAgenciesWithCoverageMatchCall ==
    /\ recon.pc = "idle"
    /\ recon' = [pc |-> "staticAgencies", fn |-> "CheckAgenciesWithCoverageMatch",
                 response |-> [kind |-> "none", n |-> 0], apiCount |-> 0, apiErr |-> "nil", localCount |-> 0,
                 err |-> "nil", match |-> Unset, before |-> gauges]
    /\ UNCHANGED << envVars, readerVars, backoffVars, pipelineVars, realtimeVars, svc, gauges >>

\* CheckAgenciesWithCoverage: the bundle that cannot be opened, read or
\* parsed, or that has no agency, is an error; else AgenciesInStaticGtfs is
\* set to len(staticData.Agencies), which is returned
CheckAgenciesWithCoverage ==
    /\ recon.pc = "staticAgencies"
    /\ \/ /\ recon' = [recon EXCEPT !.pc = "returned", !.err = "local"]
          /\ UNCHANGED gauges
       \/ \E n \in 0 .. MaxCount :
            IF n = 0
              THEN /\ recon' = [recon EXCEPT !.pc = "returned", !.err = "no agencies"]
                   /\ UNCHANGED gauges
              ELSE /\ GaugeSet("AgenciesInStaticGtfs", n)
                   /\ recon' = [recon EXCEPT !.pc = "getCoverage", !.localCount = n]
    /\ UNCHANGED << envVars, readerVars, backoffVars, pipelineVars, realtimeVars, svc >>

\* GetAgenciesWithCoverage: (0, err) on the API error, (0, nil) on a nil
\* response, else AgenciesInCoverageEndpoint is set to len(response.Data.List),
\* which is returned. CheckAgenciesWithCoverageMatch does not look at err.
GetAgenciesWithCoverage ==
    /\ recon.pc = "getCoverage"
    /\ \E response \in ApiResponses :
         IF response.kind = "error"
           THEN /\ recon' = [recon EXCEPT !.pc = "agenciesMatch", !.response = response,
                                          !.apiCount = 0, !.apiErr = "api"]
                /\ UNCHANGED gauges
           ELSE IF response.kind = "absent"
             THEN /\ recon' = [recon EXCEPT !.pc = "agenciesMatch", !.response = response,
                                            !.apiCount = 0]
                  /\ UNCHANGED gauges
             ELSE /\ GaugeSet("AgenciesInCoverageEndpoint", response.n)
                  /\ recon' = [recon EXCEPT !.pc = "agenciesMatch", !.response = response,
                                            !.apiCount = response.n]
    /\ UNCHANGED << envVars, readerVars, backoffVars, pipelineVars, realtimeVars, svc >>

\* Variant of CheckAgenciesWithCoverageMatch: the error of
\* GetAgenciesWithCoverage is returned
CheckAgenciesWithCoverageMatchReturnsError ==
    /\ recon.pc = "agenciesMatch"
    /\ IF recon.apiErr # "nil"
         THEN /\ recon' = [recon EXCEPT !.pc = "returned", !.err = "api"]
              /\ UNCHANGED gauges
         ELSE LET matchValue == IF recon.apiCount = recon.localCount THEN 1 ELSE 0
              IN  /\ GaugeSet("AgenciesMatch", matchValue)
                  /\ recon' = [recon EXCEPT !.pc = "returned", !.match = matchValue]
    /\ UNCHANGED << envVars, readerVars, backoffVars, pipelineVars, realtimeVars, svc >>

\* CheckAgenciesWithCoverageMatch: matchValue := 0; if coverageAgenciesCount
\* == staticGtfsAgenciesCount { matchValue = 1 };
\* AgenciesMatch.WithLabelValues(server id).Set(matchValue); return nil
CheckAgenciesWithCoverageMatch ==
    /\ recon.pc = "agenciesMatch"
    /\ LET matchValue == IF recon.apiCount = recon.localCount THEN 1 ELSE 0
       IN  /\ GaugeSet("AgenciesMatch", matchValue)
           /\ recon' = [recon EXCEPT !.pc = "returned", !.match = matchValue]
    /\ UNCHANGED << envVars, readerVars, backoffVars, pipelineVars, realtimeVars, svc >>

\* the caller has the result; the locals of the call are gone
ReconcilerReturn ==
    /\ recon.pc = "returned"
    /\ recon' = Idle
    /\ UNCHANGED << envVars, readerVars, backoffVars, pipelineVars, realtimeVars, svc, gauges >>

NextReconciler ==
    \/ CheckScheduledTripRouteCall
    \/ GetScheduledTripRoute
    \/ CheckScheduledTripRouteGot
    \/ CountScheduledTripRoute
    \/ CheckScheduledTripRouteMatch
    \/ CheckAgenciesWithCoverageMatchCall
    \/ CheckAgenciesWithCoverage
    \/ GetAgenciesWithCoverage
    \/ CheckAgenciesWithCoverageMatch
    \/ ReconcilerReturn

\* the checks are run one call at a time; no gauge has been set
InitReconciler ==
    /\ InitWith(<< 1, 2 >>, 0)
    /\ urlOK = [s \in Servers |-> TRUE]
    /\ maxUpdates = MaxUpdates
    /\ counterCap = CounterCap
    /\ keepOutcome = FALSE
    /\ payloads = Payloads

SpecReconciler == InitReconciler /\ [][NextReconciler]_vars

(***************************************************************************)
(* getEarliestAndLatestServiceDates (package gtfs). Dates are counted in   *)
(* days; a service period is a calendar entry with StartDate <= EndDate.   *)
(***************************************************************************)
\* dates range over 1 .. MaxDate
MaxDate == 3
\* the static data has at most MaxServices service periods
MaxServices == 3

\* time.Time{}, before every date of a bundle
ZeroDate == 0

Service(startDate, endDate) == [StartDate |-> startDate, EndDate |-> endDate]

ServicePeriods ==
    { p \in { Service(a, b) : a \in 1 .. MaxDate, b \in 1 .. MaxDate } :
        p.StartDate <= p.EndDate }

\* the staticData argument: nil (NoData) or static data with its Services
ServiceInputs ==
    {NoData} \cup
      { [Services |-> l] :
          l \in UNION { [1 .. n -> ServicePeriods] : n \in 0 .. MaxServices } }

\* t.Before(u), t.After(u)
Before(t, u) == t < u
After(t, u) == t > u

\* the range loop over staticData.Services, from index i on
RECURSIVE RangeServices(_, _, _, _)
RangeServices(services, i, earliestEndDate, latestEndDate) ==
    IF i > Len(services)
      THEN [earliestEndDate |-> earliestEndDate, latestEndDate |-> latestEndDate,
            err |-> "nil"]
      ELSE RangeServices(services, i + 1,
             IF Before(services[i].EndDate, earliestEndDate)
               THEN services[i].EndDate ELSE earliestEndDate,
             IF After(services[i].EndDate, latestEndDate)
               THEN services[i].EndDate ELSE latestEndDate)

\* Variant of getEarliestAndLatestServiceDates: the services are taken to be
\* sorted by end date
getEarliestAndLatestServiceDatesSorted(staticData) ==
    IF staticData = NoData
      THEN [earliestEndDate |-> ZeroDate, latestEndDate |-> ZeroDate,
            err |-> "static data is nil"]
    ELSE IF Len(staticData.Services) = 0
      THEN [earliestEndDate |-> ZeroDate, latestEndDate |-> ZeroDate,
            err |-> "no services found in GTFS bundle"]
    ELSE [earliestEndDate |-> staticData.Services[1].EndDate,
          latestEndDate |-> staticData.Services[Len(staticData.Services)].EndDate,
          err |-> "nil"]

getEarliestAndLatestServiceDates(staticData) ==
    IF staticData = NoData
      THEN [earliestEndDate |-> ZeroDate, latestEndDate |-> ZeroDate,
            err |-> "static data is nil"]
    ELSE IF Len(staticData.Services) = 0
      THEN [earliestEndDate |-> ZeroDate, latestEndDate |-> ZeroDate,
            err |-> "no services found in GTFS bundle"]
    ELSE RangeServices(staticData.Services, 1,
                       staticData.Services[1].EndDate, staticData.Services[1].EndDate)

\* a call of the function and its return values
getEarliestAndLatestServiceDatesCall ==
    /\ svc.pc = "idle"
    /\ \E staticData \in ServiceInputs :
         svc' = [pc |-> "returned", staticData |-> staticData,
                 result |-> getEarliestAndLatestServiceDates(staticData)]
    /\ UNCHANGED << envVars, readerVars, backoffVars, pipelineVars, realtimeVars, metricsVars >>

\* the caller has used the dates
getEarliestAndLatestServiceDatesReturn ==
    /\ svc.pc = "returned"
    /\ svc' = Idle
    /\ UNCHANGED << envVars, readerVars, backoffVars, pipelineVars, realtimeVars, metricsVars >>

NextServiceDates ==
    \/ getEarliestAndLatestServiceDatesCall
    \/ getEarliestAndLatestServiceDatesReturn

InitServiceDates ==
    /\ InitWith(<< 1, 2 >>, 0)
    /\ urlOK = [s \in Servers |-> TRUE]
    /\ maxUpdates = MaxUpdates
    /\ counterCap = CounterCap
    /\ keepOutcome = FALSE
    /\ payloads = Payloads

SpecServiceDates == InitServiceDates /\ [][NextServiceDates]_vars


(***************************************************************************)
(* Properties.                                                             *)
(***************************************************************************)
\* the ids of the servers in the list
ListedServers == { servers[i] : i \in 1 .. Len(servers) }

\* a call of downloadGTFSBundles is in progress
InCall == loopPc \in {"spawn", "wgWait"}

\* the goroutine of s ends with a failure in this step
Fails(s) == pc[s] # "none" /\ pc'[s] = "none" /\ err'[s] # "nil"

\* C1. Failure isolation in downloadGTFSBundles: when the call returns, every
\* server whose download and store succeeded has the snapshot it fetched in
\* the static store, whatever happened to the other servers; and the step in
\* which a goroutine fails neither cancels the context nor changes where
\* another goroutine is or what the stores hold for another server.
C1_FailureIsolation ==
    /\ [](loopPc = "joined" =>
            \A s \in ListedServers :
                err[s] = "nil" => staticStore[s] = NewStaticData(bundle[s]))
    /\ [][\A s \in Servers :
            Fails(s) =>
                /\ cancelled' = cancelled
                /\ \A t \in Servers \ {s} :
                     /\ pc'[t] = pc[t]
                     /\ staticStore'[t] = staticStore[t]
                     /\ boundingBoxStore'[t] = boundingBoxStore[t]]_vars

\* C1 witness: the call has returned, server 1 failed after its retries,
\* server 2 succeeded and its fetched snapshot is stored
C1_Witness ==
    /\ loopPc = "joined"
    /\ err[1] = "max retries exceeded"
    /\ err[2] = "nil"
    /\ bundle[2] \in Bundles
    /\ staticStore[2] = NewStaticData(bundle[2])
    /\ staticStore[1] = NoData

\* C2. Join barrier of downloadGTFSBundles: outside a call no goroutine of a
\* call is running and the WaitGroup counter is zero, so nothing writes to
\* the stores after the call has returned; and once every goroutine of the
\* call has finished, wg.Wait() is not blocked: the call can return.
C2_JoinBarrier ==
    /\ ~InCall => (wg = 0 /\ \A s \in Servers : pc[s] = "none")
    /\ (loopPc = "wgWait" /\ \A s \in Servers : pc[s] = "none")
          => ENABLED downloadGTFSBundlesJoin

\* C2 witness: the call has just returned after both goroutines, one of
\* which wrote to both stores, have finished
C2_Witness ==
    /\ loopPc = "joined"
    /\ wg = 0
    /\ \A s \in Servers : pc[s] = "none"
    /\ err[1] = "nil"
    /\ boundingBoxStore[1] # NoData
    /\ err[2] = "parse"

\* C3. Bounded retries of DoWithBackoff, maxRetries = n > 0: there are never
\* more than n + 1 attempts and a wait follows none but the first n failed
\* attempts; the retries-exhausted error is returned after exactly n + 1
\* attempts; the first attempt that gets a response ends the call with that
\* response and no error, the attempts before it being the failed ones
\* (retries counts them).
C3_BoundedRetries ==
    /\ [](maxRetries > 0 =>
            \A s \in Servers :
                /\ attempts[s] <= maxRetries + 1
                /\ pc[s] = "wait" => attempts[s] <= maxRetries
                /\ (pc[s] = "doReturned" /\ err[s] = "max retries exceeded")
                      => attempts[s] = maxRetries + 1)
    /\ [][maxRetries > 0 =>
            \A s \in Servers :
                (pc[s] = "do" /\ pc'[s] = "doReturned" /\ err'[s] = "nil")
                    => (attempts'[s] = retries[s] + 1 /\ resp'[s] # 0)]_vars

\* C3 witness: maxRetries = 3, the call has returned the retries-exhausted
\* error after 4 attempts, the context not being cancelled
C3_Witness ==
    /\ maxRetries = 3
    /\ ~cancelled
    /\ pc[1] = "doReturned"
    /\ err[1] = "max retries exceeded"
    /\ attempts[1] = 4

\* C4. maxRetries = 0: DoWithBackoff never returns the retries-exhausted
\* error; a failed attempt is always followed by the wait; the call returns
\* only with a response or, the context being cancelled, with its error.
C4_UnboundedRetries ==
    /\ [](maxRetries = 0 =>
            \A s \in Servers :
                /\ err[s] # "max retries exceeded"
                /\ pc[s] = "doReturned" =>
                     \/ (err[s] = "nil" /\ resp[s] # 0)
                     \/ (err[s] = "context canceled" /\ cancelled))
    /\ [][maxRetries = 0 =>
            \A s \in Servers :
                (pc[s] = "do" /\ pc'[s] # "do" /\ resp'[s] = 0) => pc'[s] = "wait"]_vars

\* C4 witness: maxRetries = 0 and the call is in its wait after more failed
\* attempts than any maxRetries of the model would allow
C4_Witness ==
    /\ maxRetries = 0
    /\ pc[1] = "wait"
    /\ attempts[1] = CounterCap
    /\ backoffDelay[1] = MAX_BACKOFF

\* C5. Cancellation during the wait of DoWithBackoff: with the context
\* cancelled, a call in its wait can return at once and cannot take the
\* timer's case; the step that ends the wait returns the context's error
\* and makes no attempt.
C5_CancelDuringWait ==
    /\ [](\A s \in Servers :
            (pc[s] = "wait" /\ cancelled) =>
                (ENABLED DoWaitCancelled(s) /\ ~ENABLED DoWaitElapsed(s)))
    /\ [][\A s \in Servers :
            (pc[s] = "wait" /\ cancelled /\ pc'[s] # "wait") =>
                /\ pc'[s] = "doReturned"
                /\ err'[s] = "context canceled"
                /\ attempts'[s] = attempts[s]]_vars

\* C5 witness: the context is cancelled while the call waits after its
\* second failed attempt
C5_Witness ==
    /\ cancelled
    /\ pc[1] = "wait"
    /\ attempts[1] = 2

\* C6. A response with a non-success status is not retried: the goroutine
\* reads and parses a body only after a response with status 200; after a
\* response with another status the next step of the goroutine ends it
\* with the status error, no body read, no further attempt in the call.
C6_StatusNotRetried ==
    /\ [](\A s \in Servers :
            /\ pc[s] \in {"read", "parse", "store", "bbox"} => resp[s] = StatusOK
            /\ (resp[s] # 0 /\ resp[s] # StatusOK /\ pc[s] # "doReturned")
                  => (pc[s] = "none" /\ err[s] = "unexpected response status"
                      /\ bundle[s] = NoBundle))
    /\ [][\A s \in Servers :
            (pc[s] = "doReturned" /\ err[s] = "nil" /\ resp[s] # StatusOK
               /\ pc'[s] # pc[s])
              => (pc'[s] = "none" /\ err'[s] = "unexpected response status"
                  /\ bundle'[s] = NoBundle)]_vars

\* C6 witness: retries were allowed, the first attempt got status 500 and
\* the goroutine has ended with the status error
C6_Witness ==
    /\ maxRetries = 3
    /\ pc[1] = "none"
    /\ resp[1] = StatusInternalServerError
    /\ err[1] = "unexpected response status"
    /\ loopPc = "wgWait"

\* C7. refreshGTFSBundles returns only after the context is cancelled: it
\* has taken the ctx.Done() case or returned only with the context
\* cancelled, and after a call of downloadGTFSBundles, whatever the
\* goroutines ended with, it goes back to its select.
C7_ReturnsOnlyOnCancel ==
    /\ [](loopPc \in {"gotDone", "returned"} => cancelled)
    /\ [][(loopPc = "joined" /\ loopPc' # "joined") => loopPc' = "select"]_vars

\* C7 witness: the loop has returned after a cycle in which server 1 failed
\* (it never got a snapshot) and server 2 succeeded
C7_Witness ==
    /\ loopPc = "returned"
    /\ cancelled
    /\ staticStore[1] = NoData
    /\ staticStore[2] # NoData

\* C8. Once the context is cancelled, refreshGTFSBundles eventually returns
\* (every attempt in flight ends, every goroutine takes its steps); a loop
\* blocked in its select is woken by the cancellation itself, not by a tick.
C8_CancelLeadsToReturn ==
    /\ cancelled ~> (loopPc = "returned")
    /\ [][(loopPc = "blocked" /\ ~cancelled /\ cancelled') => loopPc' = "gotDone"]_vars

\* C8 witness: the context is cancelled while a cycle is in progress and a
\* goroutine with unbounded retries is in the wait of DoWithBackoff
C8_Witness ==
    /\ cancelled
    /\ maxRetries = 0
    /\ loopPc = "wgWait"
    /\ pc[1] = "wait"
    /\ pc[2] = "wait"

\* C9 as stated: for every maxRetries, as long as the context is not
\* cancelled a goroutine is started for every server again and again.
C9_SchedulerNeverStalls ==
    \A s \in Servers : []<>(cancelled \/ pc[s] = "start")

\* C9 amended: the same for maxRetries > 0.
C9_SchedulerNeverStallsBounded ==
    \A s \in Servers : []<>(cancelled \/ maxRetries = 0 \/ pc[s] = "start")

\* C9 witness: maxRetries > 0, server 1 has failed after its retries and
\* the goroutine of server 2 is started in a cycle after one in which it
\* had stored a snapshot
C9_Witness ==
    /\ maxRetries > 0
    /\ ~cancelled
    /\ err[1] = "max retries exceeded"
    /\ pc[2] = "start"
    /\ staticStore[2] # NoData

\* C10. BackoffStore delay sequence: after N >= 1 UpdateBackoff(id) calls
\* since the entry was absent, the stored delay is
\* min(BASE_BACKOFF * 2^(N-1), MAX_BACKOFF), so it lies in
\* [BASE_BACKOFF, MAX_BACKOFF]; and an entry that stays is never given a
\* smaller delay.
C10_DelaySequence ==
    /\ [](\A id \in Servers :
            updates[id] >= 1 =>
                /\ backoffs[id] # NoBackoff
                /\ backoffs[id].BackoffDelay =
                     Min(BASE_BACKOFF * 2 ^ (updates[id] - 1), MAX_BACKOFF)
                /\ backoffs[id].BackoffDelay >= BASE_BACKOFF
                /\ backoffs[id].BackoffDelay <= MAX_BACKOFF)
    /\ [][\A id \in Servers :
            (backoffs[id] # NoBackoff /\ backoffs'[id] # NoBackoff) =>
                backoffs'[id].BackoffDelay >= backoffs[id].BackoffDelay]_vars

\* C10 witness: nine updates of server 1 have brought its delay to the cap
\* (the eighth would be 128 s uncapped) while server 2 is at its third
C10_Witness ==
    /\ updates[1] = 9
    /\ backoffs[1] # NoBackoff
    /\ backoffs[1].BackoffDelay = MAX_BACKOFF
    /\ updates[2] = 3
    /\ backoffs[2] # NoBackoff
    /\ backoffs[2].BackoffDelay = 4 * Second

\* C11. Each UpdateBackoff(id) stores NextRetryAt = now + d, in UTC, with d
\* at least the delay the call stores, less than 1.5 times that delay and at
\* most MAX_BACKOFF; NextRetryAt(id) returns exactly the stored time.
C11_JitteredRetryTime ==
    /\ [][\A id \in Servers :
            updates'[id] = updates[id] + 1 =>
                LET d == backoffs'[id].NextRetryAt.ms - now
                IN  /\ d >= backoffs'[id].BackoffDelay
                    /\ 2 * d < 3 * backoffs'[id].BackoffDelay
                    /\ d <= MAX_BACKOFF
                    /\ backoffs'[id].NextRetryAt.loc = "UTC"]_vars
    /\ [][\A c \in Callers :
            (caller[c].pc = "get" /\ caller'[c].pc = "got"
               /\ backoffs[caller[c].serverID] # NoBackoff) =>
                /\ caller'[c].result.exists
                /\ caller'[c].result.time = backoffs[caller[c].serverID].NextRetryAt]_vars

\* C11 witness: at clock 1 the second update of server 1 stored a delay of
\* 2 s with a jitter of 0.5 s, and NextRetryAt(1) has returned that time
C11_Witness ==
    /\ now = 1
    /\ updates[1] = 2
    /\ backoffs[1] # NoBackoff
    /\ backoffs[1].BackoffDelay = 2 * Second
    /\ backoffs[1].NextRetryAt = Time(1 + 2500, "UTC")
    /\ caller["a"].pc = "got"
    /\ caller["a"].serverID = 1
    /\ caller["a"].result = [time |-> Time(2501, "UTC"), exists |-> TRUE]

\* C12. ResetBackoff(id) followed by UpdateBackoff(id) gives the first-call
\* entry whatever streak the reset ended: after the reset there is no entry,
\* and the first update after it stores exactly BASE_BACKOFF.
C12_ResetThenUpdate ==
    /\ [](\A id \in Servers :
            /\ (streakAtReset[id] >= 1 /\ updates[id] = 0) => backoffs[id] = NoBackoff
            /\ (streakAtReset[id] >= 1 /\ updates[id] = 1) =>
                   /\ backoffs[id] # NoBackoff
                   /\ backoffs[id].BackoffDelay = BASE_BACKOFF)
    /\ [][\A id \in Servers :
            (updates[id] = 0 /\ updates'[id] = 1) =>
                backoffs'[id].BackoffDelay = BASE_BACKOFF]_vars

\* C12 witness: a streak of at least three updates of server 1 was reset
\* and one update has followed: the delay is BASE_BACKOFF
C12_Witness ==
    /\ streakAtReset[1] = StreakCap
    /\ updates[1] = 1
    /\ backoffs[1] # NoBackoff
    /\ backoffs[1].BackoffDelay = BASE_BACKOFF

\* C13. The store has an entry for id, and NextRetryAt(id) reports exists,
\* exactly when UpdateBackoff(id) was called since the last ResetBackoff(id)
\* or the creation of the store; ResetBackoff of an absent id changes
\* nothing; the map has one entry per id at most.
C13_EntryIffStreak ==
    /\ [](/\ DOMAIN backoffs = Servers
          /\ \A id \in Servers : (backoffs[id] # NoBackoff) <=> (updates[id] >= 1))
    /\ [][\A c \in Callers :
            (caller[c].pc = "get" /\ caller'[c].pc = "got") =>
                (caller'[c].result.exists <=> updates[caller[c].serverID] >= 1)]_vars
    /\ [][\A c \in Callers :
            (caller[c].pc = "reset" /\ caller'[c].pc = "idle"
               /\ backoffs[caller[c].serverID] = NoBackoff) =>
                backoffs' = backoffs]_vars

\* C13 witness: NextRetryAt(1) has reported no entry after a streak of
\* server 1 was reset, while server 2 has its entry
C13_Witness ==
    /\ caller["a"].pc = "got"
    /\ caller["a"].serverID = 1
    /\ ~caller["a"].result.exists
    /\ caller["a"].result.time = ZeroTime
    /\ streakAtReset[1] >= 1
    /\ updates[1] = 0
    /\ backoffs[2] # NoBackoff

\* C14. Frame of the BackoffStore: NextRetryAt changes no entry; an entry
\* changes only in the writing step of an UpdateBackoff or ResetBackoff call
\* for that id.
C14_BackoffFrame ==
    /\ [][\A c \in Callers :
            (caller[c].pc = "get" /\ caller'[c].pc = "got") => backoffs' = backoffs]_vars
    /\ [][\A id \in Servers :
            backoffs'[id] # backoffs[id] =>
                \E c \in Callers :
                    /\ caller[c].pc \in {"updateWrite", "reset"}
                    /\ caller[c].serverID = id
                    /\ caller'[c].pc = "idle"]_vars

\* C14 witness: a streak of server 1 was reset while server 2 keeps the
\* entry of its second update
C14_Witness ==
    /\ streakAtReset[1] >= 2
    /\ updates[1] = 0
    /\ backoffs[1] = NoBackoff
    /\ updates[2] = 2
    /\ backoffs[2] # NoBackoff
    /\ backoffs[2].BackoffDelay = 2 * Second

\* C15. Concurrent UpdateBackoff / NextRetryAt / ResetBackoff calls take
\* effect one at a time: a call that writes holds s.mu alone, readers hold it
\* only with readers, the entry a writer read is still the stored one when
\* it writes, no entry changes while a NextRetryAt call reads, and after k
\* updates of an absent entry the delay is min(BASE_BACKOFF * 2^(k-1),
\* MAX_BACKOFF): no update is lost.
C15_CallsAreAtomic ==
    /\ [](/\ mu.readers = Cardinality({ c \in Callers : caller[c].pc = "get" })
          /\ \A c \in Callers :
               caller[c].pc \in {"update", "updateWrite", "reset"} =>
                   (mu.writer = c /\ mu.readers = 0)
          /\ \A c \in Callers :
               caller[c].pc = "updateWrite" =>
                   caller[c].backoff = backoffs[caller[c].serverID]
          /\ \A id \in Servers :
               updates[id] >= 1 =>
                   /\ backoffs[id] # NoBackoff
                   /\ backoffs[id].BackoffDelay =
                        Min(BASE_BACKOFF * 2 ^ (updates[id] - 1), MAX_BACKOFF))
    /\ [][(\E c \in Callers : caller[c].pc = "get") => backoffs' = backoffs]_vars
    /\ [][\A c \in Callers :
            (caller[c].pc = "get" /\ caller'[c].pc = "got") =>
                caller'[c].result = NextRetryAtResult(backoffs'[caller[c].serverID])]_vars

\* C15 witness: goroutine b is writing the third update of server 1 after
\* goroutine a got the time of an earlier one
C15_Witness ==
    /\ caller["a"].pc = "got"
    /\ caller["a"].serverID = 1
    /\ caller["a"].result.exists
    /\ caller["b"].pc = "updateWrite"
    /\ caller["b"].serverID = 1
    /\ updates[1] = 2
    /\ caller["b"].backoff.BackoffDelay = 2 * Second

\* the values a store can hold under an id: nothing, or a whole snapshot
StaticSnapshots == {NoData} \cup { NewStaticData(b) : b \in Bundles }
BoundingBoxes ==
    {NoData} \cup { ComputeBoundingBox(b.Stops) : b \in { x \in Bundles : Len(x.Stops) > 0 } }

C17_EmptyStopsKeepBox ==
    /\ [][\A s \in Servers :
            (pc[s] = "bbox" /\ pc'[s] # "bbox" /\ Len(bundle[s].Stops) = 0) =>
                /\ pc'[s] = "none"
                /\ err'[s] = "bounding box"
                /\ boundingBoxStore' = boundingBoxStore
                /\ staticStore'[s] = NewStaticData(bundle[s])]_vars
    /\ [][\A s \in Servers :
            boundingBoxStore'[s] # boundingBoxStore[s] =>
                /\ pc[s] = "bbox"
                /\ Len(bundle[s].Stops) > 0
                /\ boundingBoxStore'[s] = ComputeBoundingBox(bundle[s].Stops)]_vars

\* C17 witness: storeGTFSBundle has failed on a bundle without stops; the
\* box of the three stops stored in an earlier cycle is still there
C17_Witness ==
    /\ pc[1] = "none"
    /\ err[1] = "bounding box"
    /\ staticStore[1] = NewStaticData(Bundle(<< >>))
    /\ boundingBoxStore[1] = ComputeBoundingBox(<< Stop(10, 20), Stop(12, 18), Stop(11, 19) >>)

\* C18 as stated: when the goroutine of s is not running, a box stored
\* for s is the box of the stops of the snapshot stored for s.
C18_BoxOfCurrentSnapshot ==
    \A s \in Servers :
        (pc[s] = "none" /\ boundingBoxStore[s] # NoData) =>
            /\ staticStore[s] # NoData
            /\ Len(staticStore[s].Stops) > 0
            /\ boundingBoxStore[s] = ComputeBoundingBox(staticStore[s].Stops)

\* C18 amended: when the goroutine of s is not running and the snapshot
\* stored for s has stops, the box stored for s is the box of those stops
\* (recomputed by every storeGTFSBundle that succeeds); when the snapshot
\* has no stops, storeGTFSBundle has left the box as it was before.
C18_BoxOfSnapshotWithStops ==
    /\ [](\A s \in Servers :
            pc[s] = "none" =>
                /\ (staticStore[s] # NoData /\ Len(staticStore[s].Stops) > 0) =>
                       boundingBoxStore[s] = ComputeBoundingBox(staticStore[s].Stops)
                /\ boundingBoxStore[s] # NoData => staticStore[s] # NoData)
    /\ [][\A s \in Servers :
            (pc[s] = "bbox" /\ pc'[s] = "none") =>
                IF Len(staticStore[s].Stops) > 0
                  THEN boundingBoxStore'[s] = ComputeBoundingBox(staticStore[s].Stops)
                  ELSE boundingBoxStore'[s] = boundingBoxStore[s]]_vars

\* C18 witness: the call has returned, the snapshot with one stop is
\* stored and the box is the box of that stop
C18_Witness ==
    /\ loopPc = "joined"
    /\ pc[1] = "none"
    /\ err[1] = "nil"
    /\ staticStore[1] = NewStaticData(Bundle(<< Stop(30, 40) >>))
    /\ boundingBoxStore[1] = ComputeBoundingBox(<< Stop(30, 40) >>)

\* the steps of a goroutine: pc[s] changes only along these
PipelineOrder ==
    { << "none", "start" >>,
      << "start", "do" >>, << "start", "none" >>,
      << "do", "wait" >>, << "do", "doReturned" >>,
      << "wait", "do" >>, << "wait", "doReturned" >>,
      << "doReturned", "read" >>, << "doReturned", "none" >>,
      << "read", "parse" >>, << "read", "none" >>,
      << "parse", "store" >>, << "parse", "none" >>,
      << "store", "bbox" >>,
      << "bbox", "none" >> }

\* C19. The steps of a goroutine are in the order fetch, read, parse, static
\* write, bounding box: the body is read only from a response with status
\* 200, parsed only when read, the static store written only (and always)
\* after a parse that succeeded, the bounding box computed and written only
\* after the static write of the same bundle.
C19_PipelineOrder ==
    /\ [](\A s \in Servers :
            /\ pc[s] \in {"read", "parse", "store", "bbox"} =>
                   (resp[s] = StatusOK /\ err[s] = "nil")
            /\ pc[s] = "parse" => bundle[s] \in payloads
            /\ pc[s] \in {"store", "bbox"} => bundle[s] \in Bundles
            /\ pc[s] = "bbox" => staticStore[s] = NewStaticData(bundle[s]))
    /\ [][\A s \in Servers :
            /\ pc'[s] # pc[s] => << pc[s], pc'[s] >> \in PipelineOrder
            /\ staticStore'[s] # staticStore[s] => (pc[s] = "store" /\ pc'[s] = "bbox")
            /\ boundingBoxStore'[s] # boundingBoxStore[s] =>
                   (pc[s] = "bbox" /\ pc'[s] = "none")]_vars

\* C19 witness: the goroutine of server 1 is about to compute the bounding
\* box of the bundle it fetched, read, parsed and stored, the box stored
\* being the one of an earlier bundle
C19_Witness ==
    /\ pc[1] = "bbox"
    /\ resp[1] = StatusOK
    /\ bundle[1] = Bundle(<< Stop(30, 40) >>)
    /\ staticStore[1] = NewStaticData(bundle[1])
    /\ boundingBoxStore[1] = ComputeBoundingBox(<< Stop(10, 20), Stop(12, 18), Stop(11, 19) >>)

\* C20. When downloadGTFSBundle fails, the goroutine has changed neither
\* the static store nor the bounding box store in that cycle: the stores
\* change only in the steps of storeGTFSBundle, a goroutine gets there only
\* from a parse that succeeded, once there it does not end with an error of
\* downloadGTFSBundle, and the step in which the download fails changes no
\* store.
C20_FailedDownloadKeepsStores ==
    [][\A s \in Servers :
         /\ (staticStore'[s] # staticStore[s] \/ boundingBoxStore'[s] # boundingBoxStore[s])
                => pc[s] \in {"store", "bbox"}
         /\ (pc'[s] = "store" /\ pc[s] # "store") => (pc[s] = "parse" /\ err[s] = "nil")
         /\ (pc[s] \in {"store", "bbox"} /\ pc'[s] = "none") => err'[s] \notin DownloadErrors
         /\ (pc[s] # "none" /\ pc'[s] = "none" /\ err'[s] \in DownloadErrors) =>
                /\ pc[s] \in {"start", "do", "wait", "doReturned", "read", "parse"}
                /\ staticStore' = staticStore
                /\ boundingBoxStore' = boundingBoxStore]_vars

\* C20 witness: the download of server 1 has failed at the parse; the
\* snapshot and the box of an earlier cycle are in the stores
C20_Witness ==
    /\ pc[1] = "none"
    /\ err[1] = "parse"
    /\ staticStore[1] = NewStaticData(Bundle(<< Stop(30, 40) >>))
    /\ boundingBoxStore[1] = ComputeBoundingBox(<< Stop(30, 40) >>)

\* the steps of fetchAndStoreGTFSRTFeed, in the order the code allows
FetchOrder ==
    { << "idle", "parseURL" >>,
      << "parseURL", "newRequest" >>, << "parseURL", "returned" >>,
      << "newRequest", "do" >>, << "newRequest", "returned" >>,
      << "do", "read" >>, << "do", "returned" >>,
      << "read", "parse" >>, << "read", "returned" >>,
      << "parse", "set" >>, << "parse", "returned" >>,
      << "set", "returned" >>,
      << "returned", "idle" >> }

\* C21. The realtime store keeps one snapshot per server: the snapshot held
\* for a server is the feed its last successful poll stored, whatever other
\* servers were polled since.
C21_SnapshotPerServer ==
    \A s \in Servers : lastFeed[s] # NoData => realtimeStore = lastFeed[s]

\* C22. fetchAndStoreGTFSRTFeed is single-shot: a call makes at most one
\* HTTP attempt, and the step after client.Do is the body read or, with the
\* transport error, the return; no step of the call touches the
\* BackoffStore or lets time pass.
C22_SingleShot ==
    /\ [](rt.pc # "idle" => rt.attempts <= 1)
    /\ [][rt.pc = "do" =>
            /\ rt'.attempts = 1
            /\ rt'.pc \in {"read", "returned"}
            /\ rt'.pc = "returned" => rt'.err = "fetch"]_vars
    /\ [][rt' # rt => UNCHANGED backoffVars]_vars

\* C22 witness: a call that ended with the transport error after its one
\* attempt
C22_Witness ==
    /\ rt.pc = "returned"
    /\ rt.err = "fetch"
    /\ rt.attempts = 1

\* C23. The realtime store is written only by the last step of a call whose
\* URL parse, request, body read and parse succeeded, with the data of the
\* parsed feed in place of what it held; a call that fails returns a non-nil
\* error and leaves the store as it was when the call began.
C23_StoreOnlyOnSuccess ==
    /\ [][rt.pc # rt'.pc => << rt.pc, rt'.pc >> \in FetchOrder]_vars
    /\ [][realtimeStore' # realtimeStore =>
            /\ rt.pc = "set"
            /\ rt.data \in RealtimePayloads(rt.server) \ {Garbage}
            /\ realtimeStore' = NewRealtimeData(rt.data)
            /\ rt'.err = "nil"]_vars
    /\ [][rt'.pc = "returned" /\ rt.pc \notin {"set", "returned"} =>
            /\ rt'.err # "nil"
            /\ realtimeStore' = rt.before]_vars
    /\ [](rt.pc = "returned" /\ rt.err # "nil" => realtimeStore = rt.before)
    /\ [](rt.pc = "returned" /\ rt.err = "nil" => realtimeStore = NewRealtimeData(rt.data))

\* C23 witness: a call that failed in the parse while the store held the
\* feed of an earlier poll
C23_Witness ==
    /\ rt.pc = "returned"
    /\ rt.err = "parse"
    /\ rt.before # NoData
    /\ realtimeStore = rt.before

\* the gauge a check writes its match indicator to
MatchGauge ==
    IF recon.fn = "CheckScheduledTripRoute" THEN "ScheduleTripForRoute" ELSE "AgenciesMatch"

\* C24. A check that runs to its end emits a match indicator that is 1 if
\* the count the API getter returned equals the count derived from the local
\* bundle and 0 if not, in CheckScheduledTripRoute and in
\* CheckAgenciesWithCoverageMatch alike.
C24_MatchIffEqual ==
    (recon.pc = "returned" /\ recon.err = "nil") =>
        /\ recon.match \in {0, 1}
        /\ recon.match = 1 <=> recon.apiCount = recon.localCount
        /\ gauges[MatchGauge] = recon.match

\* C24 witnesses: the scheduled-trip check ended with equal non-zero counts
\* and match 1
C24_Witness ==
    /\ recon.pc = "returned"
    /\ recon.fn = "CheckScheduledTripRoute"
    /\ recon.err = "nil"
    /\ recon.apiCount = MaxCount
    /\ recon.localCount = MaxCount
    /\ recon.match = 1

\* C25. A nil API response is the count 0 and no error: the getter returns
\* (0, nil), the check goes on to the local count, and a check that ends
\* without the error of the local count has emitted the indicator, 0 when
\* the local count is not 0.
C25_AbsentResponseIsZero ==
    /\ [](recon.pc # "idle" /\ recon.response.kind = "absent" =>
            /\ recon.apiCount = 0
            /\ recon.apiErr = "nil"
            /\ recon.err \in {"nil", "local"}
            /\ (recon.pc = "returned" /\ recon.err = "nil") =>
                   /\ gauges[MatchGauge] = recon.match
                   /\ recon.localCount # 0 => recon.match = 0)
    /\ [][recon.pc = "gotTrips" /\ recon.response.kind = "absent" =>
            recon'.pc = "countLocal"]_vars

\* C25 witness: the scheduled-trip check ended without error after a nil
\* response, the bundle has trips of the route, the indicator is 0
C25_Witness ==
    /\ recon.pc = "returned"
    /\ recon.fn = "CheckScheduledTripRoute"
    /\ recon.response.kind = "absent"
    /\ recon.err = "nil"
    /\ recon.localCount = MaxCount
    /\ gauges.ScheduleTripForRoute = 0

\* C26. The trip count stays a signal of its own: from the return of a
\* successful GetScheduledTripRoute on, and still after
\* CheckScheduledTripRoute has completed, the trip-count signal of (server,
\* route) is the number of trips in the API response.
C26_CountSignalKept ==
    (/\ recon.pc \in {"gotTrips", "countLocal", "match", "returned"}
     /\ recon.fn = "CheckScheduledTripRoute"
     /\ recon.response.kind = "ok") =>
        gauges.ScheduleTripForRoute = recon.apiCount

\* C27. When the API request fails, GetScheduledTripRoute returns an error
\* and sets no gauge, and CheckScheduledTripRoute returns an error next,
\* without counting the local trips and without emitting an indicator.
C27_ApiFailure ==
    /\ []((/\ recon.pc # "idle"
           /\ recon.fn = "CheckScheduledTripRoute"
           /\ recon.response.kind = "error") =>
             /\ recon.apiErr # "nil"
             /\ gauges = recon.before
             /\ recon.match = Unset
             /\ recon.pc \in {"gotTrips", "returned"}
             /\ recon.pc = "returned" => recon.err = "api")
    /\ [][(recon.pc = "gotTrips" /\ recon.response.kind = "error") =>
            (recon'.pc = "returned" /\ recon'.err # "nil")]_vars

\* C27 witness: the check returned the error of the API while the gauge held
\* the value an earlier run gave it
C27_Witness ==
    /\ recon.pc = "returned"
    /\ recon.fn = "CheckScheduledTripRoute"
    /\ recon.response.kind = "error"
    /\ recon.err = "api"
    /\ gauges.ScheduleTripForRoute = MaxCount

\* the end dates of the service periods of the static data
EndDates(staticData) ==
    { staticData.Services[i].EndDate : i \in 1 .. Len(staticData.Services) }

\* C28. getEarliestAndLatestServiceDates returns an error for static data
\* that is nil or has no service period; for any other it returns no error
\* and the least and the greatest of the end dates of the periods.
C28_ServiceDates ==
    svc.pc = "returned" =>
        IF svc.staticData = NoData
          THEN svc.result.err # "nil"
        ELSE IF Len(svc.staticData.Services) = 0
          THEN svc.result.err # "nil"
        ELSE /\ svc.result.err = "nil"
             /\ svc.result.earliestEndDate \in EndDates(svc.staticData)
             /\ svc.result.latestEndDate \in EndDates(svc.staticData)
             /\ \A d \in EndDates(svc.staticData) :
                    /\ svc.result.earliestEndDate <= d
                    /\ d <= svc.result.latestEndDate
             /\ svc.result.earliestEndDate <= svc.result.latestEndDate

\* C28 witness: three periods whose end dates are first, last and middle in
\* time, in this order; the dates returned are the first and the second
C28_Witness ==
    /\ svc.pc = "returned"
    /\ svc.staticData # NoData
    /\ Len(svc.staticData.Services) = 3
    /\ svc.staticData.Services[1].EndDate = 1
    /\ svc.staticData.Services[2].EndDate = 3
    /\ svc.staticData.Services[3].EndDate = 2
    /\ svc.result = [earliestEndDate |-> 1, latestEndDate |-> 3, err |-> "nil"]

C30_FailuresReportedWithServerAndURL ==
    \A s \in ListedServers :
        (pc[s] = "none" /\ err[s] \in DownloadErrors) =>
            /\ Len(reported[s]) >= 1
            /\ reported[s][1].by = "downloadGTFSBundle"
            /\ reported[s][1].server_id = s
            /\ reported[s][1].url

\* C31. Once the context is cancelled, refreshGTFSBundles starts no cycle: a
\* select that is reached with ctx.Done() closed does not take the tick that
\* is pending in ticker.C.
C31_NoCycleAfterCancel ==
    [][(cancelled /\ loopPc = "select") => loopPc' # "gotTick"]_vars

\* C32. Once the context is cancelled, DoWithBackoff calls client.Do no
\* more before it returns, also when the context was cancelled before the
\* call began.
C32_NoAttemptAfterCancel ==
    [][\A s \in ListedServers :
          (cancelled /\ pc[s] = "do") => pc'[s] = "do"]_vars

\* C33. The waits of DoWithBackoff are jittered: for a call in its wait, the
\* delay of its next wait is not fixed by the delay of this one (by the
\* number of retries made), the timer can end with another delay as well.
C33_WaitsAreJittered ==
    \A s \in ListedServers :
        (pc[s] = "wait" /\ ~cancelled) =>
            ENABLED (/\ DoWaitElapsed(s)
                     /\ backoffDelay'[s] # calculateNewBackoffDelay(backoffDelay[s]))

\* C34. The "max retries exceeded" error is returned only with maxRetries >
\* 0, after maxRetries + 1 attempts, and the error it wraps is that of the
\* last of them; the goroutine hands it on with the same error wrapped.
C34_WrapsLastFailure ==
    \A s \in ListedServers :
        err[s] = "max retries exceeded" =>
            /\ maxRetries > 0
            /\ wrapped[s] = maxRetries + 1
            /\ pc[s] = "doReturned" => attempts[s] = maxRetries + 1

\* C34 witness: DoWithBackoff has given up after MaxRetriesOne retries
C34_Witness ==
    /\ maxRetries = MaxRetriesOne
    /\ pc[1] = "doReturned"
    /\ err[1] = "max retries exceeded"
    /\ attempts[1] = MaxRetriesOne + 1
    /\ wrapped[1] = attempts[1]

\* C35. A cycle starts one goroutine for every server of the list, in the
\* order of the list and each server once, whatever the server ended the
\* last cycle with and whatever the BackoffStore holds for it; no step of
\* the refresh changes the BackoffStore.
C35_OneTaskPerServerPerCycle ==
    /\ []((loopPc = "spawn" /\ spawnIdx <= Len(servers)) =>
            /\ pc[servers[spawnIdx]] = "none"
            /\ ENABLED downloadGTFSBundlesSpawn)
    /\ [][(loopPc = "gotTick" /\ loopPc' # "gotTick") =>
            (loopPc' = "spawn" /\ spawnIdx' = 1)]_vars
    /\ [][loopPc = "spawn" =>
            IF spawnIdx <= Len(servers)
              THEN /\ loopPc' = "spawn"
                   /\ spawnIdx' # spawnIdx =>
                        /\ spawnIdx' = spawnIdx + 1
                        /\ pc'[servers[spawnIdx]] = "start"
              ELSE /\ loopPc' \in {"spawn", "wgWait"}
                   /\ spawnIdx' = spawnIdx]_vars
    /\ [][\A s \in Servers :
            (pc[s] # "start" /\ pc'[s] = "start") =>
                /\ loopPc = "spawn"
                /\ spawnIdx <= Len(servers)
                /\ s = servers[spawnIdx]]_vars
    /\ [][backoffs' = backoffs /\ updates' = updates /\ mu' = mu]_vars

\* C35 witness: the goroutine of server 1 has been started in the cycle
\* after one it ended with an error, while the BackoffStore holds an entry
\* for server 1 whose retry time has not come
C35_Witness ==
    /\ pc[1] = "start"
    /\ failedLastCycle[1]
    /\ backoffs[1] # NoBackoff
    /\ now < backoffs[1].NextRetryAt.ms

\* C36. Goroutines run only between the call of downloadGTFSBundles and its
\* return, as many as the WaitGroup counts; a goroutine is started only for
\* a server that has none running, so a cycle begins with none of the cycle
\* before; the entries of a server in the two stores are written by the
\* goroutine of that server alone, at its own store steps.
C36_OneCycleAtATime ==
    /\ [](wg = Cardinality({ s \in Servers : pc[s] # "none" }))
    /\ [](loopPc \notin {"spawn", "wgWait"} => \A s \in Servers : pc[s] = "none")
    /\ [][\A s \in Servers :
            /\ (pc[s] # "start" /\ pc'[s] = "start") => pc[s] = "none"
            /\ staticStore'[s] # staticStore[s] => (pc[s] = "store" /\ pc'[s] = "bbox")
            /\ boundingBoxStore'[s] # boundingBoxStore[s] =>
                  (pc[s] = "bbox" /\ pc'[s] = "none")]_vars

\* C36 witness: a later cycle is waiting for its two goroutines, the one of
\* server 1 about to replace the snapshot an earlier cycle stored
C36_Witness ==
    /\ loopPc = "wgWait"
    /\ pc[1] = "store"
    /\ pc[2] # "none"
    /\ staticStore[1] # NoData
    /\ wg = 2

\* C37. CheckAgenciesWithCoverageMatch returns an error, with AgenciesMatch
\* left as it was, exactly when the agencies of the bundle cannot be counted
\* or are none; otherwise the static count is at least 1, the indicator is
\* emitted and nil returned, also when the coverage API call failed: its
\* count is then 0 and the indicator 0.
C37_AgencyReconciliation ==
    (recon.pc = "returned" /\ recon.fn = "CheckAgenciesWithCoverageMatch") =>
        IF recon.err # "nil"
          THEN /\ recon.err \in {"local", "no agencies"}
               /\ recon.localCount = 0
               /\ recon.match = Unset
               /\ gauges = recon.before
          ELSE /\ recon.localCount >= 1
               /\ gauges.AgenciesInStaticGtfs = recon.localCount
               /\ recon.match \in {0, 1}
               /\ gauges.AgenciesMatch = recon.match
               /\ recon.response.kind = "error" =>
                     /\ recon.apiErr # "nil"
                     /\ recon.apiCount = 0
                     /\ recon.match = 0
                     /\ gauges.AgenciesInCoverageEndpoint = recon.before.AgenciesInCoverageEndpoint

\* C37 witness: the check returned nil with indicator 0 after the coverage
\* API call failed, where an earlier run had emitted 1
C37_Witness ==
    /\ recon.pc = "returned"
    /\ recon.fn = "CheckAgenciesWithCoverageMatch"
    /\ recon.err = "nil"
    /\ recon.response.kind = "error"
    /\ recon.before.AgenciesMatch = 1
    /\ gauges.AgenciesMatch = 0

\* C38. A non-success status of the realtime feed is a fetch failure: a call
\* whose response had a status other than 200 returns an error and leaves
\* the realtime store as it was when the call began.
C38_NonSuccessStatusIsFailure ==
    (rt.pc = "returned" /\ rt.status # 0 /\ rt.status # StatusOK) =>
        /\ rt.err # "nil"
        /\ realtimeStore = rt.before

=============================================================================
